---------------------------- MODULE Spec2Model ----------------------------
(***************************************************************************)
(* The decision engine of the poker bot: the action space,                 *)
(* simulate_action, evaluate_state, the alpha-beta minimax and             *)
(* bot_decision of src/src/bot.py, and the EV-based variant of the same    *)
(* functions in src/src/bot2.py, as a state machine; with them the bot's   *)
(* turn in src/src/app.py, calculate_bet_size of src/src/bet_sizing.py and *)
(* the Monte Carlo estimator of src/src/bot.py and                         *)
(* src/src/monte_carlo_parallel.py, each a specification of its own over   *)
(* the same variables.                                                     *)
(*                                                                         *)
(* Numbers.  Chips are integers.  A win probability is an integer number   *)
(* of percent (0..100).  A score of evaluate_state is an integer number of *)
(* 1/10000 (the weights 0.68, 0.25, 0.07 and the penalty 0.15 become 68    *)
(* per percent, 25 per percent of EV, 700 and 1500); an expected value of  *)
(* bot2's calculate_action_ev is an integer number of 1/1000 chip.  A      *)
(* quotient is rounded down to the unit.                                   *)
(***************************************************************************)
EXTENDS Integers, Sequences, FiniteSets, TLC

VARIABLES
    module,      \* whose bot_decision runs: "bot" (bot.py) or "bot2" (bot2.py)
    action_evs,  \* bot2: the EVs computed so far, in the order of the candidates
    input,       \* the state dictionary as the caller built it (never written)
    state,       \* the dictionary object bot_decision works on
    depth,       \* bot_decision's depth argument
    win_prob,    \* the estimate of line 353, in percent; -1 before it is made
    pc,          \* position in bot_decision
    stack,       \* the frames of the running minimax recursion, root first
    ret,         \* the value the last finished minimax call returned
    call_value,  \* minimax value of the call state (line 402)
    action,      \* the action chosen, "none" before
    log,         \* the statistics dictionary
    call,        \* the last simulate_action call made: arguments and outcome
    raise_value, \* minimax value of the raise state (line 405)
    game,        \* app.py: the PokerGame and the bot's Player the state was built from
    leaf,        \* the leaf value function of a minimax call made on its own
    bet,         \* bet_sizing.py: a calculate_bet_size call, arguments and result
    mc,          \* the Monte Carlo estimator: arguments, loop position and result
    pool,        \* monte_carlo_parallel's thread pool: the futures and the caller's sum
    evaluation,  \* poker_holdem.py: a call of evaluate_5 or best_hand_rank
    round        \* app.py: the chips of a PokerGame during play_round

(* what the decision engine itself never writes *)
others == <<pool, evaluation, round>>

aux == <<leaf, bet, mc, pool, evaluation, round>>

vars == <<module, action_evs, input, state, depth, win_prob, pc, stack, ret, call_value, action, log, call,
          raise_value, game, leaf, bet, mc, pool, evaluation, round>>

---------------------------------------------------------------------------
(* Bounds of the model *)

MaxDepth == 3

(* Frames the interpreter lets a recursion hold before it raises           *)
(* RecursionError (sys.getrecursionlimit(), 1000 by default)               *)
MaxFrames == 5

(* Cards of the deck (52 in the game: the estimator reads the deck only as *)
(* a list of distinct cards)                                               *)
DeckSize == 9

(* Simulations of a run below the threshold of the parallel version *)
MaxSims == 2

(* constants.py *)
DEFAULT_RAISE_AMOUNT == 5
MC_SIMS_MIN == 80
MC_SIMS_MAX == 350
LARGE_POT_THRESHOLD == 30
LOW_WIN_PROB_THRESHOLD == 45
BLUFF_MIN_WIN_PROB == 30
BLUFF_MAX_WIN_PROB == 45
BLUFF_BASE_FREQUENCY == 12
BLUFF_LATE_POSITION_BONUS == 3
BLUFF_LARGE_POT_PENALTY == 5
BLUFF_LARGE_POT_SIZE == 30

(* bot2.py *)
DEFAULT_RAISE == 5

(* -1e9 and 1e9 of minimax, float('inf') of bot2: below and above every    *)
(* score and every EV                                                      *)
Infinity == 1000000000

Max(a, b) == IF a >= b THEN a ELSE b
Min(a, b) == IF a <= b THEN a ELSE b

---------------------------------------------------------------------------
(* Inputs: the dictionaries bot_decision_wrapper and autotest build *)

CurrentBets == {0, 2, 5}
Stacks == {0, 3, 10}
OppStacks == {0, 7}
EarlierPot == {0, 31}
DynamicRaises == {0, 3}
WinProbs == {0, 21, 22, 29, 30, 44, 45, 51, 52, 60, 61}
LeafProbs == {20, 80}
EvProbs == {20, 50, 62, 80}
BluffDraws == {5, 8, 11, 13, 50}

NoDynamicRaise == 0 - 1

MkState(cb, bcb, bm, om, ep, dyn, sb) ==
    [ pot |-> cb + bcb + ep, current_bet |-> cb, bot_money |-> bm,
      opp_money |-> om, bot_current_bet |-> bcb, opp_current_bet |-> 0,
      raise_amount |-> DEFAULT_RAISE_AMOUNT,
      has_dynamic_raise |-> (dyn # NoDynamicRaise),
      dynamic_raise |-> IF dyn = NoDynamicRaise THEN 0 ELSE dyn,
      terminal |-> FALSE, winner |-> "none", bot_is_small_blind |-> sb ]

InputStates ==
    { s \in { MkState(cb, bcb, bm, om, ep, dyn, sb) :
                cb \in CurrentBets, bcb \in CurrentBets, bm \in Stacks,
                om \in OppStacks, ep \in EarlierPot,
                dyn \in DynamicRaises \cup {NoDynamicRaise}, sb \in BOOLEAN } :
      s.bot_current_bet <= s.current_bet }

(* The dictionary of bot2's bot_decision_wrapper: opp_current_bet, and no  *)
(* dynamic_raise or bot_is_small_blind key                                 *)
MkState2(cb, bcb, ocb, bm, om, ep) ==
    [ MkState(cb, bcb, bm, om, ep, NoDynamicRaise, FALSE)
        EXCEPT !.opp_current_bet = ocb, !.pot = bcb + ocb + ep ]

InputStates2 ==
    { s \in { MkState2(cb, bcb, ocb, bm, om, ep) :
                cb \in CurrentBets, bcb \in CurrentBets, ocb \in CurrentBets,
                bm \in Stacks, om \in OppStacks, ep \in EarlierPot } :
      s.bot_current_bet <= s.current_bet /\ s.opp_current_bet <= s.current_bet }

Actions == {"fold", "check", "call", "raise"}
Actors == {"bot", "opp"}

(* models.py; decision_times and win_probs hold the lengths of the lists *)
BOT_LOG_TEMPLATE ==
    [ decisions |-> 0, folds |-> 0, raises |-> 0, calls |-> 0, checks |-> 0,
      decision_times |-> 0, win_probs |-> 0 ]

---------------------------------------------------------------------------
(* Action space *)

(* fold admitted when nothing is bet *)
GetPossibleActionsWithFold(s) ==
    IF s.current_bet = 0 THEN <<"fold", "check", "raise">>
    ELSE <<"fold", "call", "raise">>

GetPossibleActions(s) ==
    IF s.current_bet = 0 THEN <<"check", "raise">>
    ELSE <<"fold", "call", "raise">>

(* bot2.py *)
GetPossibleActions2(s, actor) ==
    IF s.current_bet = 0 THEN <<"check", "raise">>
    ELSE <<"fold", "call", "raise">>

Range(seq) == { seq[i] : i \in 1..Len(seq) }

---------------------------------------------------------------------------
(* simulate_action: arg is the argument object after the call, res the     *)
(* dictionary returned.  s = copy.deepcopy(state) leaves the argument as   *)
(* it was.  The actor only decides the winner of a fold; every chip is     *)
(* taken from bot_money / bot_current_bet.                                 *)

(* What the dictionary holds after the action is applied to it *)
Applied(s, a, actor) ==
    IF a = "fold"
    THEN [s EXCEPT !.terminal = TRUE,
                   !.winner = IF actor = "bot" THEN "opp" ELSE "bot"]
    ELSE IF a = "call"
    THEN LET to_call == Max(0, s.current_bet - s.bot_current_bet)
         IN  [s EXCEPT !.bot_money = @ - to_call,
                       !.bot_current_bet = @ + to_call,
                       !.pot = @ + to_call]
    ELSE IF a = "raise"
    THEN LET raise_amt == IF s.has_dynamic_raise /\ s.dynamic_raise # 0
                          THEN s.dynamic_raise ELSE s.raise_amount
             new_total == s.current_bet + raise_amt
             diff == Max(0, new_total - s.bot_current_bet)
         IN  [s EXCEPT !.bot_money = @ - diff,
                       !.bot_current_bet = @ + diff,
                       !.pot = @ + diff,
                       !.current_bet = new_total]
    ELSE s

(* s = state in place of s = copy.deepcopy(state) *)
SimulateActionAliased(s, a, actor) ==
    [arg |-> Applied(s, a, actor), res |-> Applied(s, a, actor)]

(* the raise always by raise_amount, dynamic_raise not read *)
SimulateActionFixedRaise(s, a, actor) ==
    [arg |-> s,
     res |-> [Applied([s EXCEPT !.has_dynamic_raise = FALSE], a, actor)
                EXCEPT !.has_dynamic_raise = s.has_dynamic_raise]]

SimulateAction(s, a, actor) ==
    IF a = "fold"
    THEN [arg |-> s,
          res |-> [s EXCEPT !.terminal = TRUE,
                            !.winner = IF actor = "bot" THEN "opp" ELSE "bot"]]
    ELSE IF a = "check"
    THEN [arg |-> s, res |-> s]
    ELSE IF a = "call"
    THEN LET to_call == Max(0, s.current_bet - s.bot_current_bet)
         IN  [arg |-> s,
              res |-> [s EXCEPT !.bot_money = @ - to_call,
                                !.bot_current_bet = @ + to_call,
                                !.pot = @ + to_call]]
    ELSE IF a = "raise"
    THEN LET raise_amt == IF s.has_dynamic_raise /\ s.dynamic_raise # 0
                          THEN s.dynamic_raise ELSE s.raise_amount
             new_total == s.current_bet + raise_amt
             diff == Max(0, new_total - s.bot_current_bet)
         IN  [arg |-> s,
              res |-> [s EXCEPT !.bot_money = @ - diff,
                                !.bot_current_bet = @ + diff,
                                !.pot = @ + diff,
                                !.current_bet = new_total]]
    ELSE [arg |-> s, res |-> s]

(* The exception simulate_action leaves with: the function has no raise    *)
(* statement and does not consult get_possible_actions; every arm, the     *)
(* fall-through of an action that is none of the four included, ends in    *)
(* return s                                                                *)
SimulateActionException(s, a, actor) == "none"

(* simulate_action of bot2.py: the actor's own stack and committed amount  *)
(* pay, and the chips taken are capped by the stack                        *)
SimulateAction2(s, a, actor) ==
    IF a = "fold"
    THEN [arg |-> s,
          res |-> [s EXCEPT !.terminal = TRUE,
                            !.winner = IF actor = "bot" THEN "opp" ELSE "bot"]]
    ELSE IF a = "check"
    THEN [arg |-> s, res |-> s]
    ELSE IF a = "call"
    THEN LET to_call == Max(0, s.current_bet - (IF actor = "bot" THEN s.bot_current_bet
                                                ELSE s.opp_current_bet))
         IN  IF actor = "bot"
             THEN LET taken == Min(to_call, s.bot_money)
                  IN  [arg |-> s,
                       res |-> [s EXCEPT !.bot_money = @ - taken,
                                         !.bot_current_bet = @ + taken,
                                         !.pot = @ + taken]]
             ELSE LET taken == Min(to_call, s.opp_money)
                  IN  [arg |-> s,
                       res |-> [s EXCEPT !.opp_money = @ - taken,
                                         !.opp_current_bet = @ + taken,
                                         !.pot = @ + taken]]
    ELSE IF a = "raise"
    THEN LET new_total == s.current_bet + s.raise_amount
         IN  IF actor = "bot"
             THEN LET diff == Min(Max(0, new_total - s.bot_current_bet), s.bot_money)
                  IN  [arg |-> s,
                       res |-> [s EXCEPT !.bot_money = @ - diff,
                                         !.bot_current_bet = @ + diff,
                                         !.pot = @ + diff,
                                         !.current_bet = Max(@, new_total)]]
             ELSE LET diff == Min(Max(0, new_total - s.opp_current_bet), s.opp_money)
                  IN  [arg |-> s,
                       res |-> [s EXCEPT !.opp_money = @ - diff,
                                         !.opp_current_bet = @ + diff,
                                         !.pot = @ + diff,
                                         !.current_bet = Max(@, new_total)]]
    ELSE [arg |-> s, res |-> s]

---------------------------------------------------------------------------
(* evaluate_state with the estimate w (percent) its Monte Carlo run gave *)

EvaluateState(s, w) ==
    LET to_call == Max(0, s.current_bet - s.bot_current_bet)
        pot == s.pot
        raise_amt == s.raise_amount
        ev_call == w * (pot + to_call) - (100 - w) * to_call
        ev_raise == w * (pot + to_call + raise_amt)
                    - (100 - w) * (to_call + raise_amt)
        total_money == s.bot_money + s.opp_money
        bankroll == IF total_money > 0
                    THEN (700 * s.bot_money) \div total_money
                    ELSE 350
        risk_penalty == IF pot > LARGE_POT_THRESHOLD /\ w < LOW_WIN_PROB_THRESHOLD
                        THEN 0 - 1500 ELSE 0
    IN  68 * w + (25 * Max(ev_call, ev_raise)) \div (pot + 1)
        + bankroll + risk_penalty

---------------------------------------------------------------------------
(* The position-adjusted thresholds of bot_decision, in percent.           *)
(* 0.55 + 0.05 is 0.6000000000000001 in double arithmetic, so an estimate  *)
(* of exactly 0.60 is below the early-position raise threshold; the other  *)
(* five sums are the exact decimals.                                       *)

(* The fold test made against the pot odds toCall / (pot + toCall) *)
BelowFoldThresholdPotOdds(s, wp) ==
    LET to_call == Max(0, s.current_bet - s.bot_current_bet)
    IN  wp * (s.pot + to_call) < 100 * to_call

BelowFoldThreshold(s, wp) ==
    IF s.bot_is_small_blind THEN wp < 30 ELSE wp < 22

AtRaiseThresholdNoBet(s, wp) ==
    IF s.bot_is_small_blind THEN wp >= 55 ELSE wp >= 47

AtRaiseThresholdFacingBet(s, wp) ==
    IF s.bot_is_small_blind THEN wp > 60 ELSE wp >= 52

BluffFreq(s) ==
    BLUFF_BASE_FREQUENCY
    + (IF s.bot_is_small_blind THEN 0 ELSE BLUFF_LATE_POSITION_BONUS)
    - (IF s.pot > BLUFF_LARGE_POT_SIZE THEN BLUFF_LARGE_POT_PENALTY ELSE 0)

(* The fold test made before the no-bet test *)
BranchFoldFirst(s, wp) ==
    IF BelowFoldThreshold(s, wp) THEN "fold"
    ELSE IF s.current_bet = 0 THEN "no_bet"
    ELSE IF AtRaiseThresholdFacingBet(s, wp) THEN "search"
    ELSE IF BLUFF_MIN_WIN_PROB <= wp /\ wp < BLUFF_MAX_WIN_PROB THEN "bluff"
    ELSE "call"

(* The raise test made before the no-bet test *)
BranchSearchFirst(s, wp) ==
    IF AtRaiseThresholdFacingBet(s, wp) THEN "search"
    ELSE IF s.current_bet = 0 THEN "no_bet"
    ELSE IF BelowFoldThreshold(s, wp) THEN "fold"
    ELSE IF BLUFF_MIN_WIN_PROB <= wp /\ wp < BLUFF_MAX_WIN_PROB THEN "bluff"
    ELSE "call"

(* Which arm of the if / elif chain of lines 385-435 is taken *)
Branch(s, wp) ==
    IF s.current_bet = 0 THEN "no_bet"
    ELSE IF BelowFoldThreshold(s, wp) THEN "fold"
    ELSE IF AtRaiseThresholdFacingBet(s, wp) THEN "search"
    ELSE IF BLUFF_MIN_WIN_PROB <= wp /\ wp < BLUFF_MAX_WIN_PROB THEN "bluff"
    ELSE "call"

(* A weak hand facing no bet answers "call" *)
NoBetActionCalls(s, wp) ==
    IF AtRaiseThresholdNoBet(s, wp) THEN "raise" ELSE "call"

(* lines 387-390 *)
NoBetAction(s, wp) ==
    IF AtRaiseThresholdNoBet(s, wp) THEN "raise" ELSE "check"

(* lines 428-431, r the value of random.random() in percent *)
BluffAction(s, r) ==
    IF r < BluffFreq(s) THEN "raise" ELSE "call"

(* lines 408-411, the values in 1/10000 *)
SearchAction(raise_val, call_val) ==
    IF raise_val > call_val - 500 THEN "raise" ELSE "call"

---------------------------------------------------------------------------
(* bot2.py: calculate_action_ev with the estimate w (percent) of its own   *)
(* Monte Carlo run, in 1/1000 chip; -float('inf') is -Infinity             *)

CalculateActionEV(a, s, w) ==
    LET to_call == Max(0, s.current_bet - s.bot_current_bet)
        pot == s.pot
    IN  IF a = "fold" THEN 0 - 150 * s.bot_current_bet
        ELSE IF a = "check"
        THEN IF to_call = 0 THEN 5 * w ELSE 0 - Infinity
        ELSE IF a = "call"
        THEN IF to_call = 0 THEN 0
             ELSE LET ev0 == 10 * (w * (pot + to_call) - (100 - w) * to_call)
                      ev1 == IF s.bot_money > 0 /\ 5 * to_call > s.bot_money
                             THEN ev0 - (15000 * to_call) \div s.bot_money
                             ELSE ev0
                      ev2 == IF s.bot_money > 0 /\ 5 * to_call > 2 * s.bot_money
                             THEN ev1 - 40000 ELSE ev1
                  IN  IF ev2 < 2000 /\ w < 40 THEN ev2 - 5000 ELSE ev2
        ELSE IF a = "raise"
        THEN LET new_total == s.current_bet + DEFAULT_RAISE
                 diff_to_raise == new_total - s.bot_current_bet
                 ev0 == 10 * (w * (pot + diff_to_raise + DEFAULT_RAISE)
                              - (100 - w) * diff_to_raise)
                 ev1 == IF w < 60 THEN ev0 - 20000 ELSE ev0
             IN  IF s.bot_current_bet >= new_total THEN 0 - Infinity
                 ELSE IF diff_to_raise > s.bot_money THEN 0 - Infinity
                 ELSE IF to_call > 0 /\ w < 65 THEN ev1 - 15000 ELSE ev1
        ELSE 0 - Infinity

(* max(action_evs.items(), key=...)[0]: the first candidate of highest EV *)
BestAction(candidates, evs) ==
    LET best == CHOOSE i \in 1..Len(evs) :
                    /\ \A j \in 1..Len(evs) : evs[j] <= evs[i]
                    /\ \A j \in 1..(i - 1) : evs[j] < evs[i]
    IN  candidates[best]

---------------------------------------------------------------------------
(* Minimax frames *)

Frame(s, d, alpha, beta, maximizing) ==
    [ state |-> s, state0 |-> s, depth |-> d, alpha |-> alpha, beta |-> beta,
      maximizing |-> maximizing, entered |-> FALSE, actions |-> <<>>,
      idx |-> 1, best |-> 0 ]

Top == stack[Len(stack)]
Pop == SubSeq(stack, 1, Len(stack) - 1)
SetTop(f) == [stack EXCEPT ![Len(stack)] = f]

NoRet == [has |-> FALSE, val |-> 0]
NoCall == [made |-> FALSE, site |-> "none", action |-> "none", actor |-> "none",
           exception |-> "none",
           before |-> MkState(0, 0, 0, 0, 0, NoDynamicRaise, FALSE),
           after |-> MkState(0, 0, 0, 0, 0, NoDynamicRaise, FALSE),
           res |-> MkState(0, 0, 0, 0, 0, NoDynamicRaise, FALSE)]

Called(site, s, a, actor, out) ==
    [made |-> TRUE, site |-> site, action |-> a, actor |-> actor,
     exception |-> SimulateActionException(s, a, actor),
     before |-> s, after |-> out.arg, res |-> out.res]

(* app.py: the PokerGame fields and the bot Player's fields that           *)
(* bot_decision_wrapper copies into the state dictionary                   *)
GameOf(s) ==
    [ pot |-> s.pot, current_bet |-> s.current_bet, bot_money |-> s.bot_money,
      bot_current_bet |-> s.bot_current_bet, folded |-> FALSE ]

(* app.py Player.bet: the amount is cut down to the money left *)
PlayerBet(g, amount) ==
    LET paid == IF amount > g.bot_money THEN g.bot_money ELSE amount
    IN  [g EXCEPT !.bot_money = @ - paid, !.bot_current_bet = @ + paid,
                  !.pot = @ + paid]

(* app.py PokerGame._act, the bot's arm: the action returned by            *)
(* bot_decision_wrapper applied to the game                                *)
ActBot(g, a) ==
    IF a = "fold" THEN [g EXCEPT !.folded = TRUE]
    ELSE IF a = "check" THEN g
    ELSE IF a = "call"
    THEN LET diff == Max(0, g.current_bet - g.bot_current_bet)
         IN  IF diff > 0 THEN PlayerBet(g, diff) ELSE g
    ELSE IF a = "raise"
    THEN LET raise_to == g.current_bet + 5
             diff == Max(0, raise_to - g.bot_current_bet)
         IN  [(IF diff > 0 THEN PlayerBet(g, diff) ELSE g)
                EXCEPT !.current_bet = raise_to]
    ELSE g

NoBet == [called |-> FALSE]
NoEstimate == [called |-> FALSE]
NoLeaf == [fixed |-> FALSE, seed |-> 0, maximizing |-> FALSE, cut |-> FALSE]
NoPool == [called |-> FALSE]
NoEvaluation == [called |-> FALSE]
NoRound == [started |-> FALSE]

(* the thread pool, the hand evaluator and the game at rest *)
OthersIdle ==
    /\ pool = NoPool
    /\ evaluation = NoEvaluation
    /\ round = NoRound

Init ==
    /\ module \in {"bot", "bot2"}
    /\ action_evs = <<>>
    /\ input \in (IF module = "bot" THEN InputStates ELSE InputStates2)
    /\ state = input
    /\ depth \in (IF module = "bot" THEN 1..MaxDepth ELSE {MaxDepth})
    /\ win_prob = 0 - 1
    /\ pc = "start"
    /\ stack = <<>>
    /\ ret = NoRet
    /\ call_value = 0
    /\ action = "none"
    /\ log = BOT_LOG_TEMPLATE
    /\ call = NoCall
    /\ raise_value = 0
    /\ game = GameOf(input)
    /\ leaf = NoLeaf
    /\ bet = NoBet
    /\ mc = NoEstimate
    /\ OthersIdle

(* lines 349-354: the estimate is made and logged *)
EstimateWinProb ==
    /\ pc = "start"
    /\ module = "bot"
    /\ win_prob' \in WinProbs
    /\ log' = [log EXCEPT !.win_probs = @ + 1]
    /\ pc' = "decide"
    /\ UNCHANGED <<aux, raise_value, game, module, action_evs, input, state, depth, stack, ret, call_value, action, call>>

(* lines 385-390 *)
DecideNoBet ==
    /\ pc = "decide"
    /\ Branch(state, win_prob) = "no_bet"
    /\ action' = NoBetAction(state, win_prob)
    /\ pc' = "log"
    /\ UNCHANGED <<aux, raise_value, game, module, action_evs, input, state, depth, win_prob, stack, ret, call_value, log, call>>

(* lines 395-396 *)
DecideFold ==
    /\ pc = "decide"
    /\ Branch(state, win_prob) = "fold"
    /\ action' = "fold"
    /\ pc' = "log"
    /\ UNCHANGED <<aux, raise_value, game, module, action_evs, input, state, depth, win_prob, stack, ret, call_value, log, call>>

(* lines 414-431: random.random() < bluff_freq, the draw r in percent *)
DecideBluff ==
    /\ pc = "decide"
    /\ Branch(state, win_prob) = "bluff"
    /\ \E r \in BluffDraws : action' = BluffAction(state, r)
    /\ pc' = "log"
    /\ UNCHANGED <<aux, raise_value, game, module, action_evs, input, state, depth, win_prob, stack, ret, call_value, log, call>>

(* lines 434-435 *)
DecideCall ==
    /\ pc = "decide"
    /\ Branch(state, win_prob) = "call"
    /\ action' = "call"
    /\ pc' = "log"
    /\ UNCHANGED <<aux, raise_value, game, module, action_evs, input, state, depth, win_prob, stack, ret, call_value, log, call>>

(* lines 401-402: call_state = simulate_action(state, "call") and the      *)
(* minimax call on it is entered                                           *)
SearchCall ==
    /\ pc = "decide"
    /\ Branch(state, win_prob) = "search"
    /\ LET out == SimulateAction(state, "call", "bot")
       IN  /\ call' = Called("decide", state, "call", "bot", out)
           /\ state' = out.arg
           /\ stack' = <<Frame(out.res, depth - 1, 0 - Infinity, Infinity, FALSE)>>
    /\ ret' = NoRet
    /\ pc' = "call_search"
    /\ UNCHANGED <<aux, raise_value, game, module, action_evs, input, depth, win_prob, call_value, action, log>>

(* lines 402-405: call_value is returned; raise_state is built and its     *)
(* minimax call entered                                                    *)
SearchRaise ==
    /\ pc = "call_search"
    /\ stack = <<>>
    /\ ret.has
    /\ call_value' = ret.val
    /\ LET out == SimulateAction(state, "raise", "bot")
       IN  /\ call' = Called("decide", state, "raise", "bot", out)
           /\ state' = out.arg
           /\ stack' = <<Frame(out.res, depth - 1, 0 - Infinity, Infinity, FALSE)>>
    /\ ret' = NoRet
    /\ pc' = "raise_search"
    /\ UNCHANGED <<aux, raise_value, game, module, action_evs, input, depth, win_prob, action, log>>

(* lines 405-411: raise_value is returned and compared (0.05 is 500) *)
SearchDone ==
    /\ pc = "raise_search"
    /\ stack = <<>>
    /\ ret.has
    /\ raise_value' = ret.val
    /\ action' = SearchAction(ret.val, call_value)
    /\ ret' = NoRet
    /\ pc' = "log"
    /\ UNCHANGED <<aux, game, module, action_evs, input, state, depth, win_prob, stack, call_value, log, call>>

(* lines 291-292: a terminal state or depth == 0 is evaluated; the         *)
(* estimate inside evaluate_state is any w                                 *)
MinimaxLeaf ==
    /\ stack # <<>>
    /\ ~ Top.entered
    /\ Top.state.terminal \/ Top.depth = 0
    /\ \E w \in LeafProbs : ret' = [has |-> TRUE, val |-> EvaluateState(Top.state, w)]
    /\ stack' = Pop
    /\ UNCHANGED <<aux, raise_value, game, module, action_evs, input, state, depth, win_prob, pc, call_value, action, log, call>>

(* lines 294-297 / 305-308: the loop over get_possible_actions(state) starts *)
MinimaxEnter ==
    /\ stack # <<>>
    /\ ~ Top.entered
    /\ ~ (Top.state.terminal \/ Top.depth = 0)
    /\ stack' = SetTop([Top EXCEPT !.entered = TRUE,
                                   !.actions = GetPossibleActions(Top.state),
                                   !.idx = 1,
                                   !.best = IF Top.maximizing THEN 0 - Infinity
                                            ELSE Infinity])
    /\ UNCHANGED <<aux, raise_value, game, module, action_evs, input, state, depth, win_prob, pc, ret, call_value, action, log, call>>

(* lines 298-299 / 309-310: the next action is simulated (actor defaults   *)
(* to "bot" at both plies) and the recursive call entered                  *)
MinimaxExplore ==
    /\ stack # <<>>
    /\ Top.entered
    /\ ~ ret.has
    /\ Top.idx <= Len(Top.actions)
    /\ Top.beta > Top.alpha \/ Top.idx = 1
    /\ Len(stack) < MaxFrames
    /\ LET f == Top
           a == f.actions[f.idx]
           out == SimulateAction(f.state, a, "bot")
       IN  /\ call' = Called(IF f.maximizing THEN "max" ELSE "min",
                             f.state, a, "bot", out)
           /\ stack' = Append(SetTop([f EXCEPT !.state = out.arg]),
                              Frame(out.res, f.depth - 1, f.alpha, f.beta,
                                    ~ f.maximizing))
    /\ UNCHANGED <<aux, raise_value, game, module, action_evs, input, state, depth, win_prob, pc, ret, call_value, action, log>>

(* alpha and beta both tightened at either ply *)
MinimaxAbsorbBothBounds ==
    /\ stack # <<>>
    /\ Top.entered
    /\ ret.has
    /\ LET f == Top
           best == IF f.maximizing THEN Max(f.best, ret.val) ELSE Min(f.best, ret.val)
       IN  stack' = SetTop([f EXCEPT
                              !.best = best,
                              !.alpha = Max(@, best),
                              !.beta = Min(@, best),
                              !.idx = @ + 1])
    /\ ret' = NoRet
    /\ UNCHANGED <<aux, raise_value, game, module, action_evs, input, state, depth, win_prob, pc, call_value, action, log, call>>

(* lines 300-303 / 311-314: the child's value is folded into best/worst,   *)
(* alpha or beta *)
MinimaxAbsorb ==
    /\ stack # <<>>
    /\ Top.entered
    /\ ret.has
    /\ LET f == Top
           best == IF f.maximizing THEN Max(f.best, ret.val) ELSE Min(f.best, ret.val)
       IN  stack' = SetTop([f EXCEPT
                              !.best = best,
                              !.alpha = IF f.maximizing THEN Max(@, best) ELSE @,
                              !.beta = IF f.maximizing THEN @ ELSE Min(@, best),
                              !.idx = @ + 1])
    /\ ret' = NoRet
    /\ UNCHANGED <<aux, raise_value, game, module, action_evs, input, state, depth, win_prob, pc, call_value, action, log, call>>

(* lines 302-304 / 313-315: break on beta <= alpha, or the loop is over:   *)
(* best / worst is returned                                                *)
MinimaxReturn ==
    /\ stack # <<>>
    /\ Top.entered
    /\ ~ ret.has
    /\ Top.idx > Len(Top.actions) \/ (Top.beta <= Top.alpha /\ Top.idx > 1)
    /\ ret' = [has |-> TRUE, val |-> Top.best]
    /\ stack' = Pop
    /\ leaf' = IF leaf.fixed /\ Top.idx <= Len(Top.actions)
               THEN [leaf EXCEPT !.cut = TRUE] ELSE leaf
    /\ UNCHANGED <<others, bet, mc, raise_value, game, module, action_evs, input, state, depth, win_prob, pc, call_value, action, log, call>>

(* lines 438-449: the statistics are updated and the action returned *)
UpdateLog ==
    /\ pc = "log"
    /\ log' = [log EXCEPT
                 !.decisions = @ + 1,
                 !.decision_times = @ + 1,
                 !.folds = IF action = "fold" THEN @ + 1 ELSE @,
                 !.calls = IF action = "call" THEN @ + 1 ELSE @,
                 !.raises = IF action = "raise" THEN @ + 1 ELSE @,
                 !.checks = IF action \notin {"fold", "call", "raise"} THEN @ + 1 ELSE @]
    /\ pc' = "done"
    /\ UNCHANGED <<aux, raise_value, game, module, action_evs, input, state, depth, win_prob, stack, ret, call_value, action, call>>

(* bot2.py lines 286-293: the estimate is made and logged (it is not read  *)
(* again), the candidates are listed                                       *)
Bot2EstimateWinProb ==
    /\ pc = "start"
    /\ module = "bot2"
    /\ win_prob' \in EvProbs
    /\ log' = [log EXCEPT !.win_probs = @ + 1]
    /\ pc' = "ev"
    /\ UNCHANGED <<aux, raise_value, game, module, action_evs, input, state, depth, stack, ret, call_value,
                   action, call>>

(* bot2.py lines 296-299: the EV of the next candidate *)
Bot2ActionEV ==
    /\ pc = "ev"
    /\ Len(action_evs) < Len(GetPossibleActions2(state, "bot"))
    /\ \E w \in EvProbs :
          action_evs' = Append(action_evs,
              CalculateActionEV(GetPossibleActions2(state, "bot")[Len(action_evs) + 1],
                                state, w))
    /\ UNCHANGED <<aux, raise_value, game, module, input, state, depth, win_prob, pc, stack, ret, call_value,
                   action, log, call>>

(* bot2.py line 302 *)
Bot2Choose ==
    /\ pc = "ev"
    /\ Len(action_evs) = Len(GetPossibleActions2(state, "bot"))
    /\ action' = BestAction(GetPossibleActions2(state, "bot"), action_evs)
    /\ pc' = "log2"
    /\ UNCHANGED <<aux, raise_value, game, module, action_evs, input, state, depth, win_prob, stack, ret,
                   call_value, log, call>>

(* bot2.py lines 305-309 *)
Bot2UpdateLog ==
    /\ pc = "log2"
    /\ log' = [log EXCEPT
                 !.decisions = @ + 1,
                 !.decision_times = @ + 1,
                 !.folds = IF action = "fold" THEN @ + 1 ELSE @,
                 !.calls = IF action = "call" THEN @ + 1 ELSE @,
                 !.raises = IF action = "raise" THEN @ + 1 ELSE @,
                 !.checks = IF action = "check" THEN @ + 1 ELSE @]
    /\ pc' = "done"
    /\ UNCHANGED <<aux, raise_value, game, module, action_evs, input, state, depth, win_prob, stack, ret,
                   call_value, action, call>>

(* bot2.py's simulate_action applied to a state, for any action and actor  *)
(* (bot2's bot_decision does not call it)                                  *)
Bot2SimulateAction ==
    /\ pc = "start"
    /\ module = "bot2"
    /\ \E a \in Actions, actor \in Actors :
          LET out == SimulateAction2(state, a, actor)
          IN  /\ call' = Called("bot2", state, a, actor, out)
              /\ state' = out.arg
    /\ pc' = "applied"
    /\ UNCHANGED <<aux, raise_value, game, module, action_evs, input, depth, win_prob, stack, ret, call_value,
                   action, log>>

(* bot.py's simulate_action applied to a state, for any action string     *)
(* ("bet" is none of the four) and either actor                            *)
BotSimulateAction ==
    /\ pc = "start"
    /\ module = "bot"
    /\ \E a \in Actions \cup {"bet"}, actor \in Actors :
          LET out == SimulateAction(state, a, actor)
          IN  /\ call' = Called("apply", state, a, actor, out)
              /\ state' = out.arg
    /\ pc' = "applied"
    /\ UNCHANGED <<aux, raise_value, game, module, action_evs, input, depth, win_prob, stack, ret,
                   call_value, action, log>>

(* app.py lines 539-575: the game applies the action the wrapper returned  *)
(* (the wrapper's dictionary always has the dynamic_raise key)             *)
Act ==
    /\ pc = "done"
    /\ module = "bot"
    /\ input.has_dynamic_raise
    /\ game' = ActBot(game, action)
    /\ pc' = "acted"
    /\ UNCHANGED <<aux, raise_value, module, action_evs, input, state, depth, win_prob, stack, ret,
                   call_value, action, log, call>>

(* The recursion of lines 299 / 310 meets the interpreter's limit: the     *)
(* RecursionError leaves minimax and bot_decision, which catch nothing     *)
RecursionError ==
    /\ stack # <<>>
    /\ Top.entered
    /\ ~ ret.has
    /\ Top.idx <= Len(Top.actions)
    /\ Top.beta > Top.alpha \/ Top.idx = 1
    /\ Len(stack) >= MaxFrames
    /\ stack' = <<>>
    /\ pc' = "RecursionError"
    /\ UNCHANGED <<aux, raise_value, game, module, action_evs, input, state, depth, win_prob, ret,
                   call_value, action, log, call>>

Next ==
    \/ EstimateWinProb
    \/ DecideNoBet
    \/ DecideFold
    \/ DecideBluff
    \/ DecideCall
    \/ SearchCall
    \/ SearchRaise
    \/ SearchDone
    \/ MinimaxLeaf
    \/ MinimaxEnter
    \/ MinimaxExplore
    \/ MinimaxAbsorb
    \/ MinimaxReturn
    \/ UpdateLog
    \/ Bot2EstimateWinProb
    \/ Bot2ActionEV
    \/ Bot2Choose
    \/ Bot2UpdateLog
    \/ Bot2SimulateAction
    \/ BotSimulateAction
    \/ Act

Spec == Init /\ [][Next]_vars

---------------------------------------------------------------------------
(* minimax called on its own, with a leaf value function that is a fixed   *)
(* function of the state: evaluate_state with the estimate a seeded        *)
(* Monte Carlo run gives for that state                                    *)

FixedProbs == <<20, 50, 80>>
LeafSeeds == {0, 1, 2}

FixedEstimate(s, seed) ==
    FixedProbs[((s.pot + s.current_bet + (IF s.terminal THEN 1 ELSE 0) + seed) % 3) + 1]

LeafValue(s, seed) == EvaluateState(s, FixedEstimate(s, seed))

MinimaxInputs == { s \in InputStates : ~ s.bot_is_small_blind /\ s.opp_money > 0 }

InitMinimax ==
    /\ module = "bot"
    /\ action_evs = <<>>
    /\ input \in MinimaxInputs
    /\ state = input
    /\ depth \in 0..MaxDepth
    /\ win_prob = 0 - 1
    /\ pc = "minimax"
    /\ leaf \in [fixed : {TRUE}, seed : LeafSeeds, maximizing : BOOLEAN, cut : {FALSE}]
    /\ stack = <<Frame(input, depth, 0 - Infinity, Infinity, leaf.maximizing)>>
    /\ ret = NoRet
    /\ call_value = 0
    /\ action = "none"
    /\ log = BOT_LOG_TEMPLATE
    /\ call = NoCall
    /\ raise_value = 0
    /\ game = GameOf(input)
    /\ bet = NoBet
    /\ mc = NoEstimate
    /\ OthersIdle

(* lines 291-292 with the fixed leaf value function *)
MinimaxLeafFixed ==
    /\ stack # <<>>
    /\ ~ Top.entered
    /\ Top.state.terminal \/ Top.depth = 0
    /\ ret' = [has |-> TRUE, val |-> LeafValue(Top.state, leaf.seed)]
    /\ stack' = Pop
    /\ UNCHANGED <<aux, raise_value, game, module, action_evs, input, state, depth, win_prob, pc, call_value, action, log, call>>

NextMinimax ==
    \/ MinimaxLeafFixed
    \/ MinimaxEnter
    \/ MinimaxExplore
    \/ MinimaxAbsorb
    \/ MinimaxReturn

SpecMinimax == InitMinimax /\ [][NextMinimax]_vars

---------------------------------------------------------------------------
(* The decision engine at rest, while another function is followed *)
DecisionIdle ==
    /\ module = "bot"
    /\ action_evs = <<>>
    /\ input = MkState(0, 0, 0, 0, 0, NoDynamicRaise, FALSE)
    /\ state = input
    /\ depth = 1
    /\ win_prob = 0 - 1
    /\ pc = "idle"
    /\ stack = <<>>
    /\ ret = NoRet
    /\ call_value = 0
    /\ action = "none"
    /\ log = BOT_LOG_TEMPLATE
    /\ call = NoCall
    /\ raise_value = 0
    /\ game = GameOf(input)
    /\ leaf = NoLeaf

decisionVars == <<module, action_evs, input, state, depth, win_prob, pc, stack, ret, call_value,
                  action, log, call, raise_value, game, leaf>>

---------------------------------------------------------------------------
(* bet_sizing.py: calculate_bet_size.  win_prob and bet_pct are in         *)
(* percent; pot and bot_money are in half chips (a split pot pays pot / 2  *)
(* to each player, app.py lines 767-768); the amount returned is in chips. *)

BetWinProbs == {0, 44, 45, 54, 55, 69, 70, 84, 85, 100}
BetPots == {0, 4, 7, 20, 41, 100}
BetStacks == {0, 1, 2, 3, 4, 5, 7, 8, 20, 200}

(* The values random.uniform draws from the band: its ends and its middle *)
BetPcts(wp) ==
    IF wp >= 85 THEN {70, 85, 100}
    ELSE IF wp >= 70 THEN {60, 67, 75}
    ELSE IF wp >= 55 THEN {40, 50, 60}
    ELSE IF wp >= 45 THEN {25, 32, 40}
    ELSE {40, 50, 60}

(* round() of x / 200: to the nearest integer, a half to the even one *)
Round200(x) ==
    LET q == x \div 200
        r == x % 200
    IN  IF r < 100 THEN q
        ELSE IF r > 100 THEN q + 1
        ELSE IF q % 2 = 0 THEN q ELSE q + 1

(* lines 64-73, the amounts in 1/200 chip: pot * bet_pct, max(2, .),       *)
(* min(., bot_money), round                                                *)
CalculateBetSize(pot, bot_money, bet_pct) ==
    Round200(Min(Max(400, pot * bet_pct), 100 * bot_money))

InitBet ==
    /\ DecisionIdle
    /\ mc = NoEstimate
    /\ OthersIdle
    /\ bet \in [called : {FALSE}, win_prob : BetWinProbs, pot : BetPots,
                 bot_money : BetStacks, bet_pct : {0}, amount : {0}]

CalculateBetSizeCall ==
    /\ ~ bet.called
    /\ \E pct \in BetPcts(bet.win_prob) :
          bet' = [bet EXCEPT !.called = TRUE, !.bet_pct = pct,
                             !.amount = CalculateBetSize(bet.pot, bet.bot_money, pct)]
    /\ UNCHANGED <<decisionVars, mc, others>>

NextBet == CalculateBetSizeCall

SpecBet == InitBet /\ [][NextBet]_vars

---------------------------------------------------------------------------
(* The Monte Carlo estimator: monte_carlo_win_prob of bot.py,              *)
(* monte_carlo_parallel and _run_simulations_batch.  A card is a number    *)
(* 1..DeckSize.  wins is counted in halves (a win 2, a tie 1); the value   *)
(* returned is the fraction num / den.  The batches of the thread pool     *)
(* share nothing they write (each builds its own deck_cards): they are     *)
(* run one after the other, in the order submitted.  batches is the list   *)
(* of batch sizes submitted, run the number of simulations made so far.    *)

(* n_sim >= 100 of bot.py line 91, n_sim < 100 of monte_carlo_parallel.py *)
ParallelMinSims == 100

(* bot.py line 52 *)
FULL_DECK == [i \in 1..DeckSize |-> i]

Hands == {<<1, 2>>, <<7, 9>>}
Communities == {<<>>, <<3, 5, 6>>, <<3, 5, 6, 8>>, <<3, 4, 5, 6, 8>>}
Extras == {<<>>, <<1>>, <<7>>}
SimCounts == (1..MaxSims) \cup {ParallelMinSims}
WorkerCounts == {1, 3, 4, ParallelMinSims + 1}

(* The calls: bot.py passes FULL_DECK.cards; monte_carlo_parallel takes    *)
(* the deck as an argument, here the full deck or the known cards with at  *)
(* most one more.  max_workers stands for min(4, cpu_count()) where the    *)
(* default is taken.                                                       *)
McCalls ==
    { c \in [fn : {"monte_carlo_win_prob", "monte_carlo_parallel"},
             bot_hand : Hands, community : Communities,
             full_deck : {FULL_DECK} \cup { h \o k \o e : h \in Hands, k \in Communities,
                                                          e \in Extras },
             n_sim : SimCounts, max_workers : WorkerCounts] :
        /\ Range(c.bot_hand) \cap Range(c.community) = {}
        /\ c.fn = "monte_carlo_win_prob" => c.full_deck = FULL_DECK
        /\ c.full_deck # FULL_DECK =>
              \E e \in Extras : /\ c.full_deck = c.bot_hand \o c.community \o e
                                /\ Range(e) \cap Range(c.bot_hand \o c.community) = {}
        /\ Len(c.community) = 0 => c.n_sim = 1
        /\ c.n_sim >= ParallelMinSims => (Len(c.community) = 5 /\ c.bot_hand = <<1, 2>>)
        /\ c.n_sim < ParallelMinSims => c.max_workers = 4 }

(* the unfiltered deck handed to the loop *)
DeckCardsUnfiltered(full_deck, bot_hand, community) == full_deck

(* used = set(bot_hand + community); deck_cards = [c for c in ... if c not in used] *)
DeckCards(full_deck, bot_hand, community) ==
    SelectSeq(full_deck, LAMBDA c : c \notin Range(bot_hand \o community))

(* The orders random.shuffle can leave the list in *)
Shuffles(cards) ==
    { [i \in 1..Len(cards) |-> cards[p[i]]] : p \in Permutations(1..Len(cards)) }

(* opp_hand = deck_cards[:2] *)
OppHand(deck_cards) == SubSeq(deck_cards, 1, Min(2, Len(deck_cards)))

(* deck_cards[idx] of the while loop is out of range *)
DealIndexError(deck_cards, community) ==
    Len(community) < 5 /\ Len(deck_cards) < 2 + (5 - Len(community))

(* sim_comm: the community completed to 5 cards from deck_cards[2:] *)
SimComm(deck_cards, community) ==
    IF Len(community) >= 5 THEN community
    ELSE community \o SubSeq(deck_cards, 3, 2 + (5 - Len(community)))

(* evaluator.evaluate(board, hand) of treys, a lower rank the better hand: *)
(* here the hand is as good as the highest card among board and hand       *)
Evaluate(board, hand) ==
    LET cards == Range(board) \cup Range(hand)
    IN  (DeckSize + 1) - (CHOOSE c \in cards : \A d \in cards : d <= c)

(* What one simulation adds to wins, in halves *)
Outcome(bot_hand, opp_hand, sim_comm) ==
    LET bot_rank == Evaluate(sim_comm, bot_hand)
        opp_rank == Evaluate(sim_comm, opp_hand)
    IN  IF bot_rank < opp_rank THEN 2 ELSE IF bot_rank = opp_rank THEN 1 ELSE 0

(* every batch of sims_per_worker simulations, the remainder left out *)
BatchSizesEven(n_sim, max_workers) ==
    [i \in 1..max_workers |-> n_sim \div max_workers]

(* batch_size of every worker i = 0..max_workers-1, lines 45-53 *)
BatchSizes(n_sim, max_workers) ==
    [i \in 1..max_workers |->
        (n_sim \div max_workers) + (IF i - 1 < n_sim % max_workers THEN 1 ELSE 0)]

McStart(c) ==
    [ called |-> TRUE, fn |-> c.fn, bot_hand |-> c.bot_hand, community |-> c.community,
      full_deck |-> c.full_deck, n_sim |-> c.n_sim, max_workers |-> c.max_workers,
      pc |-> c.fn, mode |-> "none", deck_cards |-> <<>>, n |-> 0, i |-> 0, wins |-> 0,
      pending |-> <<>>, total_wins |-> 0, dealt |-> FALSE, opp_hand |-> <<>>,
      sim_comm |-> <<>>, won |-> 0, tied |-> 0, returned |-> FALSE, num |-> 0, den |-> 1,
      exception |-> "none", batches |-> <<>>, run |-> 0 ]

InitMonteCarlo ==
    /\ DecisionIdle
    /\ bet = NoBet
    /\ OthersIdle
    /\ \E c \in McCalls : mc = McStart(c)

(* bot.py lines 91-92: the parallel version is called for n_sim >= 100 *)
McDelegate ==
    /\ mc.pc = "monte_carlo_win_prob"
    /\ mc.n_sim >= ParallelMinSims
    /\ mc' = [mc EXCEPT !.pc = "monte_carlo_parallel"]
    /\ UNCHANGED <<decisionVars, bet, others>>

(* bot.py lines 96-100: the sequential loop is set up, n_sim = max(1, n_sim) *)
McSequential ==
    /\ mc.pc = "monte_carlo_win_prob"
    /\ mc.n_sim < ParallelMinSims
    /\ mc' = [mc EXCEPT !.pc = "loop", !.mode = "sequential",
                        !.deck_cards = DeckCards(mc.full_deck, mc.bot_hand, mc.community),
                        !.n = Max(1, mc.n_sim), !.i = 0, !.wins = 0]
    /\ UNCHANGED <<decisionVars, bet, others>>

(* monte_carlo_parallel.py lines 41-42 and 84-90: below 100 simulations    *)
(* one batch is run in the caller and its result returned as it is         *)
McSmallBatch ==
    /\ mc.pc = "monte_carlo_parallel"
    /\ mc.n_sim < ParallelMinSims
    /\ mc' = [mc EXCEPT !.pc = "loop", !.mode = "small",
                        !.deck_cards = DeckCards(mc.full_deck, mc.bot_hand, mc.community),
                        !.n = mc.n_sim, !.i = 0, !.wins = 0]
    /\ UNCHANGED <<decisionVars, bet, others>>

(* monte_carlo_parallel.py lines 45-58: the batches are submitted *)
McSubmit ==
    /\ mc.pc = "monte_carlo_parallel"
    /\ mc.n_sim >= ParallelMinSims
    /\ mc' = [mc EXCEPT !.pc = "pool", !.mode = "batch",
                        !.pending = BatchSizes(mc.n_sim, mc.max_workers),
                        !.batches = BatchSizes(mc.n_sim, mc.max_workers),
                        !.total_wins = 0]
    /\ UNCHANGED <<decisionVars, bet, others>>

(* monte_carlo_parallel.py lines 84-90: a worker starts the next batch *)
McBatchStart ==
    /\ mc.pc = "pool"
    /\ mc.pending # <<>>
    /\ mc' = [mc EXCEPT !.pc = "loop",
                        !.deck_cards = DeckCards(mc.full_deck, mc.bot_hand, mc.community),
                        !.n = Head(mc.pending), !.i = 0, !.wins = 0,
                        !.pending = Tail(mc.pending)]
    /\ UNCHANGED <<decisionVars, bet, others>>

(* One iteration, bot.py lines 102-122 / monte_carlo_parallel.py lines     *)
(* 92-112: the list is shuffled in place, the opponent's hand and the      *)
(* missing community cards are taken from it, the hands compared           *)
McSimulate ==
    /\ mc.pc = "loop"
    /\ mc.i < mc.n
    /\ \E d \in Shuffles(mc.deck_cards) :
          /\ ~ DealIndexError(d, mc.community)
          /\ LET opp_hand == OppHand(d)
                 sim_comm == SimComm(d, mc.community)
                 o == Outcome(mc.bot_hand, opp_hand, sim_comm)
             IN  mc' = [mc EXCEPT !.deck_cards = d, !.i = @ + 1, !.wins = @ + o,
                                 !.run = @ + 1,
                                 !.dealt = TRUE, !.opp_hand = opp_hand,
                                 !.sim_comm = sim_comm,
                                 !.won = IF o = 2 THEN @ + 1 ELSE @,
                                 !.tied = IF o = 1 THEN @ + 1 ELSE @]
    /\ UNCHANGED <<decisionVars, bet, others>>

(* The same iteration when the list is too short for the community: the    *)
(* IndexError of deck_cards[idx] leaves the estimator                      *)
McIndexError ==
    /\ mc.pc = "loop"
    /\ mc.i < mc.n
    /\ \E d \in Shuffles(mc.deck_cards) :
          /\ DealIndexError(d, mc.community)
          /\ mc' = [mc EXCEPT !.deck_cards = d, !.pc = "done",
                              !.exception = "IndexError"]
    /\ UNCHANGED <<decisionVars, bet, others>>

(* bot.py line 124: return wins / n_sim *)
McSequentialReturn ==
    /\ mc.pc = "loop"
    /\ mc.mode = "sequential"
    /\ mc.i = mc.n
    /\ mc' = [mc EXCEPT !.pc = "done", !.returned = TRUE,
                        !.num = mc.wins, !.den = 2 * mc.n]
    /\ UNCHANGED <<decisionVars, bet, others>>

(* monte_carlo_parallel.py lines 114 and 42: the batch returns wins, and   *)
(* monte_carlo_parallel returns that                                       *)
McSmallReturn ==
    /\ mc.pc = "loop"
    /\ mc.mode = "small"
    /\ mc.i = mc.n
    /\ mc' = [mc EXCEPT !.pc = "done", !.returned = TRUE,
                        !.num = mc.wins, !.den = 2]
    /\ UNCHANGED <<decisionVars, bet, others>>

(* monte_carlo_parallel.py lines 114 and 61: a batch returns wins, which   *)
(* is added to total_wins                                                  *)
McBatchReturn ==
    /\ mc.pc = "loop"
    /\ mc.mode = "batch"
    /\ mc.i = mc.n
    /\ mc' = [mc EXCEPT !.pc = "pool", !.total_wins = @ + mc.wins]
    /\ UNCHANGED <<decisionVars, bet, others>>

(* monte_carlo_parallel.py line 63: return total_wins / n_sim *)
McParallelReturn ==
    /\ mc.pc = "pool"
    /\ mc.pending = <<>>
    /\ mc' = [mc EXCEPT !.pc = "done", !.returned = TRUE,
                        !.num = mc.total_wins, !.den = 2 * mc.n_sim]
    /\ UNCHANGED <<decisionVars, bet, others>>

NextMonteCarlo ==
    \/ McDelegate
    \/ McSequential
    \/ McSmallBatch
    \/ McSubmit
    \/ McBatchStart
    \/ McSimulate
    \/ McIndexError
    \/ McSequentialReturn
    \/ McSmallReturn
    \/ McBatchReturn
    \/ McParallelReturn

SpecMonteCarlo == InitMonteCarlo /\ [][NextMonteCarlo]_vars

(* bot_decision called with depth 0 (the search then starts at depth -1) *)
InitDepth0 ==
    /\ module \in {"bot", "bot2"}
    /\ action_evs = <<>>
    /\ input \in (IF module = "bot" THEN InputStates ELSE InputStates2)
    /\ state = input
    /\ depth \in (IF module = "bot" THEN {0} ELSE {MaxDepth})
    /\ win_prob = 0 - 1
    /\ pc = "start"
    /\ stack = <<>>
    /\ ret = NoRet
    /\ call_value = 0
    /\ action = "none"
    /\ log = BOT_LOG_TEMPLATE
    /\ call = NoCall
    /\ raise_value = 0
    /\ game = GameOf(input)
    /\ leaf = NoLeaf
    /\ bet = NoBet
    /\ mc = NoEstimate
    /\ OthersIdle

NextDepth0 == Next \/ RecursionError

SpecDepth0 == InitDepth0 /\ [][NextDepth0]_vars

---------------------------------------------------------------------------
(* The thread pool of monte_carlo_parallel, lines 48-63, with the threads  *)
(* interleaved.  A future is one submitted batch: pending in the           *)
(* executor's queue, running in a worker thread, or finished.  The loop of *)
(* a batch is followed by who has called random.shuffle, not by the count  *)
(* of its iterations: the iterations before the last are one step, the     *)
(* last iteration and the return another.  wins is counted in halves; the  *)
(* hands are not followed here, a batch wins none, half or all of its      *)
(* simulations.                                                            *)

PoolSims == {ParallelMinSims, ParallelMinSims + 1, 200}
PoolWorkers == {1, 2, 3, 4}

(* what a batch of that size can return *)
BatchWins(size) == {0, size, 2 * size}

(* The generator a batch's random.shuffle draws from (line 94): shuffle is *)
(* a function of the random module, bound to the one Random instance the   *)
(* module makes when it is imported; no batch makes a generator of its own *)
BatchGenerator(k) == "random"

PoolStart(n_sim, max_workers) ==
    [ called |-> TRUE, pc |-> "submit", n_sim |-> n_sim, max_workers |-> max_workers,
      futures |-> <<>>, total_wins |-> 0, returned |-> FALSE, num |-> 0, den |-> 1 ]

Future(batch_size) ==
    [ size |-> batch_size, state |-> "pending", generator |-> "none", wins |-> 0,
      yielded |-> FALSE ]

InitPool ==
    /\ DecisionIdle
    /\ bet = NoBet
    /\ mc = NoEstimate
    /\ evaluation = NoEvaluation
    /\ round = NoRound
    /\ \E n_sim \in PoolSims, max_workers \in PoolWorkers :
          pool = PoolStart(n_sim, max_workers)

poolOthers == <<decisionVars, bet, mc, evaluation, round>>

(* lines 52-58: the next batch is submitted; after the last one the caller *)
(* goes on to line 61                                                      *)
PoolSubmit ==
    /\ pool.pc = "submit"
    /\ LET i == Len(pool.futures) + 1
           batch_size == BatchSizes(pool.n_sim, pool.max_workers)[i]
       IN  pool' = [pool EXCEPT !.futures = Append(@, Future(batch_size)),
                                !.pc = IF i = pool.max_workers THEN "collect" ELSE "submit"]
    /\ UNCHANGED poolOthers

(* A worker thread takes the oldest pending batch from the queue and       *)
(* runs lines 84-90 of it                                                  *)
WorkerStart ==
    /\ \E k \in 1..Len(pool.futures) :
          /\ pool.futures[k].state = "pending"
          /\ \A j \in 1..(k - 1) : pool.futures[j].state # "pending"
          /\ pool' = [pool EXCEPT !.futures[k].state = "running"]
    /\ UNCHANGED poolOthers

(* lines 92-112, the iterations before the last: random.shuffle is called  *)
WorkerShuffle ==
    /\ \E k \in 1..Len(pool.futures) :
          /\ pool.futures[k].state = "running"
          /\ pool.futures[k].size > 1
          /\ pool.futures[k].generator = "none"
          /\ pool' = [pool EXCEPT !.futures[k].generator = BatchGenerator(k)]
    /\ UNCHANGED poolOthers

(* lines 92-114: the last iteration, if the batch has any, and the return  *)
WorkerReturn ==
    /\ \E k \in 1..Len(pool.futures) :
          /\ pool.futures[k].state = "running"
          /\ pool.futures[k].size > 1 => pool.futures[k].generator # "none"
          /\ \E w \in BatchWins(pool.futures[k].size) :
                pool' = [pool EXCEPT
                           !.futures[k].state = "finished",
                           !.futures[k].wins = w,
                           !.futures[k].generator =
                               IF pool.futures[k].size > 0 THEN BatchGenerator(k) ELSE @]
    /\ UNCHANGED poolOthers

(* line 61: as_completed yields a finished future, whose result sum adds   *)
AsCompleted ==
    /\ pool.pc = "collect"
    /\ \E k \in 1..Len(pool.futures) :
          /\ pool.futures[k].state = "finished"
          /\ ~ pool.futures[k].yielded
          /\ pool' = [pool EXCEPT !.futures[k].yielded = TRUE,
                                  !.total_wins = @ + pool.futures[k].wins]
    /\ UNCHANGED poolOthers

(* lines 61-63: every future has been yielded; the executor is shut down   *)
(* and total_wins / n_sim returned                                         *)
PoolReturn ==
    /\ pool.pc = "collect"
    /\ \A k \in 1..Len(pool.futures) : pool.futures[k].yielded
    /\ pool' = [pool EXCEPT !.pc = "done", !.returned = TRUE,
                            !.num = pool.total_wins, !.den = 2 * pool.n_sim]
    /\ UNCHANGED poolOthers

NextPool ==
    \/ PoolSubmit
    \/ WorkerStart
    \/ WorkerShuffle
    \/ WorkerReturn
    \/ AsCompleted
    \/ PoolReturn

SpecPool == InitPool /\ [][NextPool]_vars

---------------------------------------------------------------------------
(* poker_holdem.py: the hand evaluator.  A card is <<value, suit>>, the    *)
(* value 2..14 of RANK_VALUE (J 11, Q 12, K 13, A 14), the suit 1..4 in    *)
(* the order of SUITS.  A tuple the code returns is a sequence; None is    *)
(* the record field none.                                                  *)

RankToValue(card) == card[1]

(* is_flush: len(set(suits)) == 1 *)
IsFlush(cards) == Cardinality({ cards[i][2] : i \in 1..Len(cards) }) = 1

RemoveAt(seq, i) == SubSeq(seq, 1, i - 1) \o SubSeq(seq, i + 1, Len(seq))

(* sorted(..., reverse=True) of a list of numbers *)
RECURSIVE SortDesc(_)
SortDesc(seq) ==
    IF seq = <<>> THEN <<>>
    ELSE LET i == CHOOSE i \in 1..Len(seq) : \A j \in 1..Len(seq) : seq[j] <= seq[i]
         IN  <<seq[i]>> \o SortDesc(RemoveAt(seq, i))

(* sorted(set(values), reverse=True) *)
RECURSIVE SetDesc(_)
SetDesc(S) ==
    IF S = {} THEN <<>>
    ELSE LET m == CHOOSE m \in S : \A x \in S : x <= m
         IN  <<m>> \o SetDesc(S \ {m})

(* The loop of lines 82-89 from index i on (i counted from 1): the top of  *)
(* the first run of 5 consecutive values, 0 for None                       *)
RECURSIVE ConsecutiveRun(_, _, _)
ConsecutiveRun(vals, i, consec) ==
    IF i > Len(vals) - 1 THEN 0
    ELSE LET c == IF vals[i] - vals[i + 1] = 1 THEN consec + 1 ELSE 1
         IN  IF c >= 5 THEN vals[i - 3] ELSE ConsecutiveRun(vals, i + 1, c)

(* is_straight without the ace counted as 1 and without the wheel *)
IsStraightNoWheel(values) ==
    LET vals == SetDesc(Range(values))
        run == ConsecutiveRun(vals, 1, 1)
    IN  [straight |-> run # 0, high |-> run]

(* is_straight, lines 67-101: (True, top value) or (False, None), None     *)
(* being high 0                                                            *)
IsStraight(values) ==
    IF values = <<>> THEN [straight |-> FALSE, high |-> 0]
    ELSE LET sorted == SetDesc(Range(values))
             vals == IF 14 \in Range(values) THEN Append(sorted, 1) ELSE sorted
             run == ConsecutiveRun(vals, 1, 1)
             windows == { i \in 1..(Len(vals) - 4) : vals[i] - vals[i + 4] = 4 }
             window == IF Len(vals) >= 5 /\ run = 0 /\ windows # {}
                       THEN vals[CHOOSE i \in windows : \A j \in windows : i <= j]
                       ELSE run
             best_high == IF window = 0 /\ Len(vals) >= 5
                             /\ {14, 5, 4, 3, 2} \subseteq Range(values)
                          THEN 5 ELSE window
         IN  [straight |-> best_high # 0, high |-> best_high]

(* counts_by_freq: the (freq, val) pairs of the values in S, sorted        *)
(* downwards                                                               *)
RECURSIVE CountsByFreq(_, _)
CountsByFreq(S, vals) ==
    IF S = {} THEN <<>>
    ELSE LET Count(v) == Cardinality({ i \in 1..Len(vals) : vals[i] = v })
             m == CHOOSE m \in S :
                    \A x \in S : Count(x) < Count(m) \/ (Count(x) = Count(m) /\ x <= m)
         IN  <<<<Count(m), m>>>> \o CountsByFreq(S \ {m}, vals)

(* evaluate_5, lines 104-143 *)
Evaluate5(cards) ==
    LET vals == SortDesc([i \in 1..Len(cards) |-> RankToValue(cards[i])])
        counts_by_freq == CountsByFreq(Range(vals), vals)
        freqs == [i \in 1..Len(counts_by_freq) |-> counts_by_freq[i][1]]
        flush == IsFlush(cards)
        st == IsStraight(vals)
        Without(S) == SelectSeq(vals, LAMBDA v : v \notin S)
    IN  IF st.straight /\ flush THEN <<8, st.high>>
        ELSE IF freqs[1] = 4
        THEN <<7, counts_by_freq[1][2], Without({counts_by_freq[1][2]})[1]>>
        ELSE IF freqs[1] = 3 /\ Len(freqs) > 1 /\ freqs[2] = 2
        THEN <<6, counts_by_freq[1][2], counts_by_freq[2][2]>>
        ELSE IF flush THEN <<5>> \o vals
        ELSE IF st.straight THEN <<4, st.high>>
        ELSE IF freqs[1] = 3
        THEN <<3, counts_by_freq[1][2]>> \o Without({counts_by_freq[1][2]})
        ELSE IF freqs[1] = 2 /\ Len(freqs) > 1 /\ freqs[2] = 2
        THEN <<2, counts_by_freq[1][2], counts_by_freq[2][2],
               Without({counts_by_freq[1][2], counts_by_freq[2][2]})[1]>>
        ELSE IF freqs[1] = 2
        THEN <<1, counts_by_freq[1][2]>> \o Without({counts_by_freq[1][2]})
        ELSE <<0>> \o vals

(* rank > best of two tuples: the first entry that differs decides, a      *)
(* proper prefix is the smaller                                            *)
TupleGreater(a, b) ==
    LET n == Min(Len(a), Len(b))
        differ == { i \in 1..n : a[i] # b[i] }
    IN  IF differ = {} THEN Len(a) > Len(b)
        ELSE LET i == CHOOSE i \in differ : \A j \in differ : i <= j
             IN  a[i] > b[i]

(* the entries of seq at the positions in I, in the order of seq *)
RECURSIVE Pick(_, _)
Pick(seq, I) ==
    IF I = {} THEN <<>>
    ELSE LET i == CHOOSE i \in I : \A j \in I : i <= j
         IN  <<seq[i]>> \o Pick(seq, I \ {i})

(* itertools.combinations(seven_cards, 5) *)
Combinations5(seven_cards) ==
    { Pick(seven_cards, I) : I \in { J \in SUBSET (1..Len(seven_cards)) : Cardinality(J) = 5 } }

(* best_hand_rank, lines 146-153: the greatest evaluate_5 of the           *)
(* combinations, None when there is none                                   *)
BestHandRank(seven_cards) ==
    LET ranks == { Evaluate5(comb) : comb \in Combinations5(seven_cards) }
    IN  IF ranks = {} THEN [none |-> TRUE, rank |-> <<>>]
        ELSE [none |-> FALSE,
              rank |-> CHOOSE r \in ranks : \A q \in ranks : ~ TupleGreater(q, r)]

(* The cards the evaluate_5 calls are drawn from: nine ranks in two suits  *)
(* and the other two aces                                                  *)
EvalDeck ==
    ({14, 13, 12, 11, 10, 5, 4, 3, 2} \X {1, 2}) \cup {<<14, 3>>, <<14, 4>>}

(* The cards the best_hand_rank calls are drawn from *)
RankDeck ==
    {<<14, 1>>, <<13, 1>>, <<12, 1>>, <<11, 1>>, <<10, 1>>, <<14, 2>>, <<13, 2>>, <<2, 3>>}

(* a list of the cards in S *)
RECURSIVE CardList(_)
CardList(S) ==
    IF S = {} THEN <<>>
    ELSE LET c == CHOOSE c \in S : TRUE
         IN  <<c>> \o CardList(S \ {c})

EvaluationStart(fn, hand, community_cards, cards) ==
    [ called |-> TRUE, fn |-> fn, hand |-> hand, community_cards |-> community_cards,
      cards |-> cards, returned |-> FALSE, none |-> FALSE, rank |-> <<>>,
      exception |-> "none" ]

InitEvaluate ==
    /\ DecisionIdle
    /\ bet = NoBet
    /\ mc = NoEstimate
    /\ pool = NoPool
    /\ round = NoRound
    /\ \/ \E S \in { T \in SUBSET EvalDeck : Cardinality(T) = 5 } :
             evaluation = EvaluationStart("evaluate_5", <<>>, <<>>, CardList(S))
       \/ \E S \in SUBSET RankDeck :
             evaluation = EvaluationStart("best_hand_rank", <<>>, <<>>, CardList(S))
       \/ \E S \in SUBSET RankDeck :
             \E H \in SUBSET S :
                /\ Cardinality(H) = Min(2, Cardinality(S))
                /\ evaluation = EvaluationStart("evaluate_hand", CardList(H),
                                                CardList(S \ H), <<>>)

evaluateOthers == <<decisionVars, bet, mc, pool, round>>

(* evaluate_5 is called on 5 cards *)
Evaluate5Call ==
    /\ evaluation.fn = "evaluate_5"
    /\ ~ evaluation.returned
    /\ evaluation' = [evaluation EXCEPT !.returned = TRUE,
                                        !.rank = Evaluate5(evaluation.cards)]
    /\ UNCHANGED evaluateOthers

(* best_hand_rank is called on a list of cards *)
BestHandRankCall ==
    /\ evaluation.fn = "best_hand_rank"
    /\ ~ evaluation.returned
    /\ LET best == BestHandRank(evaluation.cards)
       IN  evaluation' = [evaluation EXCEPT !.returned = TRUE, !.none = best.none,
                                            !.rank = best.rank]
    /\ UNCHANGED evaluateOthers

(* PokerMinimaxBot.evaluate_hand, line 184 *)
EvaluateHandCall ==
    /\ evaluation.fn = "evaluate_hand"
    /\ ~ evaluation.returned
    /\ LET seven_cards == evaluation.hand \o evaluation.community_cards
           best == BestHandRank(seven_cards)
       IN  evaluation' = [evaluation EXCEPT !.cards = seven_cards, !.returned = TRUE,
                                            !.none = best.none, !.rank = best.rank]
    /\ UNCHANGED evaluateOthers

NextEvaluate ==
    \/ Evaluate5Call
    \/ BestHandRankCall
    \/ EvaluateHandCall

SpecEvaluate == InitEvaluate /\ [][NextEvaluate]_vars

---------------------------------------------------------------------------
(* bot_decision with the estimator of line 353 run, not drawn: the state   *)
(* dictionary's bot_hand and community are handed to monte_carlo_win_prob, *)
(* whose return value is win_prob and whose exception, which bot_decision  *)
(* does not catch, leaves bot_decision.  Before the call mc holds the      *)
(* state's cards and, as n_sim, the mc_sims argument.                      *)

(* line 352, MC_SIMS_DEPTH_MULTIPLIER being 0.4 *)
Sims(mc_sims, d) ==
    Min(MC_SIMS_MAX, Max(MC_SIMS_MIN, (mc_sims * (10 + 4 * (d - 1))) \div 10))

(* every card of the deck but those of the community and the last one: a  *)
(* state whose known cards leave one card unknown                          *)
AllButOne(community) ==
    SelectSeq(FULL_DECK, LAMBDA c : c \notin Range(community) /\ c # DeckSize)

(* bot_hand and community of the state: a hand that loses, draws or wins   *)
(* against every opponent on a full board, and the states that leave too   *)
(* few cards                                                               *)
DecideCards ==
    { [bot_hand |-> <<1, 2>>, community |-> <<3, 4, 5, 6, 8>>],
      [bot_hand |-> <<1, 2>>, community |-> <<3, 4, 5, 6, DeckSize>>],
      [bot_hand |-> <<1, DeckSize>>, community |-> <<3, 4, 5, 6, 8>>],
      [bot_hand |-> AllButOne(<<3, 5, 6>>), community |-> <<3, 5, 6>>],
      [bot_hand |-> AllButOne(<<3, 4, 5, 6, 8>>), community |-> <<3, 4, 5, 6, 8>>] }

(* mc_sims of app.py line 252 at level 1, and the default *)
McSimsArgs == {50, 1000}

DecideInputs == { MkState(cb, 0, 10, 7, 0, 3, sb) : cb \in {0, 5}, sb \in BOOLEAN }

InitDecide ==
    /\ module = "bot"
    /\ action_evs = <<>>
    /\ input \in DecideInputs
    /\ state = input
    /\ depth \in 1..MaxDepth
    /\ win_prob = 0 - 1
    /\ pc = "start"
    /\ stack = <<>>
    /\ ret = NoRet
    /\ call_value = 0
    /\ action = "none"
    /\ log = BOT_LOG_TEMPLATE
    /\ call = NoCall
    /\ raise_value = 0
    /\ game = GameOf(input)
    /\ leaf = NoLeaf
    /\ bet = NoBet
    /\ OthersIdle
    /\ \E k \in DecideCards, mc_sims \in McSimsArgs :
          mc = [McStart([fn |-> "monte_carlo_win_prob", bot_hand |-> k.bot_hand,
                         community |-> k.community, full_deck |-> FULL_DECK,
                         n_sim |-> mc_sims, max_workers |-> 4])
                  EXCEPT !.called = FALSE, !.pc = "state"]

(* lines 349-353: sims is computed and monte_carlo_win_prob called *)
DecideEstimate ==
    /\ pc = "start"
    /\ module = "bot"
    /\ mc' = [mc EXCEPT !.called = TRUE, !.pc = "monte_carlo_win_prob",
                        !.n_sim = Sims(mc.n_sim, depth)]
    /\ pc' = "estimate"
    /\ UNCHANGED <<others, leaf, bet, raise_value, game, module, action_evs, input, state, depth,
                   win_prob, stack, ret, call_value, action, log, call>>

(* lines 353-354: the estimator has returned; the value is win_prob (in    *)
(* percent, rounded down) and is logged                                    *)
EstimateReturn ==
    /\ pc = "estimate"
    /\ mc.pc = "done"
    /\ mc.returned
    /\ win_prob' = (100 * mc.num) \div mc.den
    /\ log' = [log EXCEPT !.win_probs = @ + 1]
    /\ pc' = "decide"
    /\ UNCHANGED <<aux, raise_value, game, module, action_evs, input, state, depth, stack, ret,
                   call_value, action, call>>

(* line 353: the estimator has raised; the exception leaves bot_decision,  *)
(* which has no try around the call                                        *)
EstimateRaise ==
    /\ pc = "estimate"
    /\ mc.pc = "done"
    /\ mc.exception # "none"
    /\ pc' = mc.exception
    /\ UNCHANGED <<aux, raise_value, game, module, action_evs, input, state, depth, win_prob, stack,
                   ret, call_value, action, log, call>>

NextDecide ==
    \/ DecideEstimate
    \/ McDelegate
    \/ McSequential
    \/ McSubmit
    \/ McBatchStart
    \/ McSimulate
    \/ McIndexError
    \/ McSequentialReturn
    \/ McBatchReturn
    \/ McParallelReturn
    \/ EstimateReturn
    \/ EstimateRaise
    \/ DecideNoBet
    \/ DecideFold
    \/ DecideCall
    \/ SearchCall
    \/ SearchRaise
    \/ SearchDone
    \/ MinimaxLeaf
    \/ MinimaxEnter
    \/ MinimaxExplore
    \/ MinimaxAbsorb
    \/ MinimaxReturn
    \/ UpdateLog

SpecDecide == InitDecide /\ [][NextDecide]_vars

---------------------------------------------------------------------------
(* bot_decision on given cards, with win_prob the expectation of the       *)
(* estimator: on a full board every one of the opponent's possible hands   *)
(* counts once, a win as 1 and a tie as a half (bot.py lines 115-122);     *)
(* mc.odds is that count for the cards of the state.                       *)
(* The cards are those of poker_holdem.py, <<value, suit>> with the suits  *)
(* 1 spades, 2 hearts, 3 diamonds, 4 clubs.  treys' evaluator.evaluate,    *)
(* known by its contract only, ranks the best 5 of the 7 cards in the      *)
(* standard order of poker hands, a lower number the better hand: the      *)
(* order best_hand_rank gives, a greater tuple the better hand.            *)

Deck52 == (2..14) \X (1..4)

(* The opponent's possible hands on a full board, and how many of them     *)
(* the bot beats (bot_rank < opp_rank, line 119) and ties (line 121)       *)
ExactOdds(bot_hand, board) ==
    LET rest == Deck52 \ Range(bot_hand \o board)
        opp_hands == { h \in rest \X rest : 4 * h[1][1] + h[1][2] < 4 * h[2][1] + h[2][2] }
        bot_rank == BestHandRank(bot_hand \o board).rank
        opp_rank == [h \in opp_hands |-> BestHandRank(h \o board).rank]
    IN  [ hands |-> Cardinality(opp_hands),
          won |-> Cardinality({ h \in opp_hands : TupleGreater(bot_rank, opp_rank[h]) }),
          tied |-> Cardinality({ h \in opp_hands : bot_rank = opp_rank[h] }) ]

(* the expectation with a tie counted as a loss, in percent *)
WinShareTiesLost(odds) == (100 * odds.won) \div odds.hands

(* wins / n_sim with wins += 1 for a win and 0.5 for a tie, in percent     *)
(* rounded down                                                            *)
WinShare(odds) == (100 * (2 * odds.won + odds.tied)) \div (2 * odds.hands)

(* 2c 7d and Kc 2c on K K K Q Q; 2c 7d on two boards it does not improve *)
ScenarioCards ==
    { [bot_hand |-> <<<<2, 4>>, <<7, 3>>>>,
       community |-> <<<<13, 1>>, <<13, 2>>, <<13, 3>>, <<12, 1>>, <<12, 2>>>>],
      [bot_hand |-> <<<<13, 4>>, <<2, 4>>>>,
       community |-> <<<<13, 1>>, <<13, 2>>, <<13, 3>>, <<12, 1>>, <<12, 2>>>>],
      [bot_hand |-> <<<<2, 4>>, <<7, 3>>>>,
       community |-> <<<<14, 1>>, <<13, 2>>, <<12, 1>>, <<8, 3>>, <<3, 2>>>>],
      [bot_hand |-> <<<<2, 4>>, <<7, 3>>>>,
       community |-> <<<<14, 1>>, <<13, 2>>, <<2, 1>>, <<8, 3>>, <<3, 2>>>>] }

(* pot 50 and a stack of 60, facing a bet of 40 or none *)
ScenarioInputs ==
    { MkState(cb, 0, 60, 60, 50 - cb, dyn, sb) :
        cb \in {0, 40}, dyn \in {NoDynamicRaise, 10}, sb \in BOOLEAN }

InitScenario ==
    \E k \in ScenarioCards :
        LET odds == ExactOdds(k.bot_hand, k.community)
        IN  /\ mc = [ called |-> FALSE, bot_hand |-> k.bot_hand, community |-> k.community,
                      odds |-> odds, hands |-> 0, won |-> 0, tied |-> 0 ]
            /\ module = "bot"
            /\ action_evs = <<>>
            /\ input \in ScenarioInputs
            /\ state = input
            /\ depth \in 1..MaxDepth
            /\ win_prob = 0 - 1
            /\ pc = "start"
            /\ stack = <<>>
            /\ ret = NoRet
            /\ call_value = 0
            /\ action = "none"
            /\ log = BOT_LOG_TEMPLATE
            /\ call = NoCall
            /\ raise_value = 0
            /\ game = GameOf(input)
            /\ leaf = NoLeaf
            /\ bet = NoBet
            /\ OthersIdle

(* lines 353-354, the simulations of lines 109-122 giving the odds of the  *)
(* cards: wins / n_sim is the share of the hands won plus half the share   *)
(* of the hands tied                                                       *)
EstimateExact ==
    /\ pc = "start"
    /\ module = "bot"
    /\ mc' = [mc EXCEPT !.called = TRUE, !.hands = mc.odds.hands, !.won = mc.odds.won,
                        !.tied = mc.odds.tied]
    /\ win_prob' = WinShare(mc.odds)
    /\ log' = [log EXCEPT !.win_probs = @ + 1]
    /\ pc' = "decide"
    /\ UNCHANGED <<others, leaf, bet, raise_value, game, module, action_evs, input, state, depth,
                   stack, ret, call_value, action, call>>

NextScenario ==
    \/ EstimateExact
    \/ DecideNoBet
    \/ DecideFold
    \/ DecideBluff
    \/ DecideCall
    \/ SearchCall
    \/ SearchRaise
    \/ SearchDone
    \/ MinimaxLeaf
    \/ MinimaxEnter
    \/ MinimaxExplore
    \/ MinimaxAbsorb
    \/ MinimaxReturn
    \/ UpdateLog

SpecScenario == InitScenario /\ [][NextScenario]_vars

---------------------------------------------------------------------------
(* app.py: the chips of a PokerGame during play_round.  Player 0 is the    *)
(* human and player 1 the bot (line 202); position i of a pair below is    *)
(* player i - 1.  Amounts are in quarter chips: stacks start at whole or   *)
(* half chips, every bet is a whole number of chips or a whole stack, and  *)
(* a split pot is halved once, so every amount of a hand is a whole number *)
(* of quarters, on which the float arithmetic of the code is exact.        *)

Unit == 4
Chips(n) == Unit * n

STARTING_MONEY == 100
SMALL_BLIND == 2
BIG_BLIND == 5

(* raises in one betting round, after which no raise is offered *)
MaxRaises == 2

(* The two stacks when a hand begins: the starting money, and stacks left  *)
(* by earlier hands, a short one or a half chip of a split pot among them  *)
StartMoney ==
    { <<Chips(STARTING_MONEY), Chips(STARTING_MONEY)>>,
      <<Chips(1), Chips(2 * STARTING_MONEY - 1)>>,
      <<Chips(3) + 2, Chips(2 * STARTING_MONEY - 4) + 2>>,
      <<Chips(2 * STARTING_MONEY - 4), Chips(4)>> }

(* self.raise_amount, set with the minus and plus buttons (lines 516-519) *)
RaiseAmounts == {1, 1000}

(* self.pot += p.bet(amount), Player.bet cutting the amount down to the    *)
(* money left                                                              *)
PotBet(r, i, amount) ==
    LET paid == IF amount > r.money[i + 1] THEN r.money[i + 1] ELSE amount
    IN  [r EXCEPT !.money[i + 1] = @ - paid, !.current_bets[i + 1] = @ + paid,
                  !.pot = @ + paid]

(* The actions bot_decision can return: check or raise when there is no    *)
(* bet, fold, call or raise when there is one                              *)
BotActions(r) ==
    IF r.current_bet = 0 THEN {"check", "raise"} ELSE {"fold", "call", "raise"}

(* _wait_player_buttons *)
HumanActions(r, i) ==
    LET can_check == r.current_bets[i + 1] = r.current_bet
    IN  {"fold", "quit"}
          \cup (IF can_check \/ r.current_bet = 0 THEN {"check"} ELSE {"call"})
          \cup (IF r.current_bet = 0 THEN {"bet"} ELSE {"raise"})

(* _act, the bot's arm *)
ActBotArm(r, i, a) ==
    IF a = "fold" THEN [r |-> [r EXCEPT !.folded[i + 1] = TRUE], result |-> "fold"]
    ELSE IF a = "call"
    THEN LET diff == Max(0, r.current_bet - r.current_bets[i + 1])
         IN  [r |-> IF diff > 0 THEN PotBet(r, i, diff) ELSE r, result |-> "call"]
    ELSE IF a = "raise"
    THEN LET raise_to == r.current_bet + Chips(5)
             diff == Max(0, raise_to - r.current_bets[i + 1])
         IN  [r |-> [(IF diff > 0 THEN PotBet(r, i, diff) ELSE r)
                        EXCEPT !.current_bet = raise_to],
              result |-> "raise"]
    ELSE [r |-> r, result |-> "check"]

(* _act, the human's arm *)
ActHumanArm(r, i, a, raise_amount) ==
    IF a = "quit" THEN [r |-> r, result |-> "quit"]
    ELSE IF a = "fold" THEN [r |-> [r EXCEPT !.folded[i + 1] = TRUE], result |-> "fold"]
    ELSE IF a = "call"
    THEN LET diff == Max(0, r.current_bet - r.current_bets[i + 1])
         IN  [r |-> IF diff > 0 THEN PotBet(r, i, diff) ELSE r, result |-> "call"]
    ELSE IF a = "bet"
    THEN LET bet_amount == Chips(Max(1, raise_amount))
             diff == bet_amount - r.current_bets[i + 1]
         IN  [r |-> [(IF diff > 0 THEN PotBet(r, i, diff) ELSE r)
                        EXCEPT !.current_bet = bet_amount],
              result |-> "raise"]
    ELSE IF a = "raise"
    THEN LET new_bet == r.current_bet + Chips(Max(1, raise_amount))
             diff == new_bet - r.current_bets[i + 1]
         IN  [r |-> [(IF diff > 0 THEN PotBet(r, i, diff) ELSE r)
                        EXCEPT !.current_bet = new_bet],
              result |-> "raise"]
    ELSE [r |-> r, result |-> "check"]

(* self.pot / 2 rounded down to whole chips *)
SplitShareWhole(pot) == Chips((pot \div Unit) \div 2)

(* self.pot / 2 *)
SplitShare(pot) == pot \div 2

(* showdown: the only player left takes the pot; otherwise res of          *)
(* compare_hands gives it to player 0 (1), to player 1 (-1) or splits it   *)
ShowdownPay(r, res) ==
    LET active == { i \in {0, 1} : ~ r.folded[i + 1] }
    IN  IF Cardinality(active) = 1
        THEN LET winner == CHOOSE i \in active : TRUE
             IN  [r EXCEPT !.money[winner + 1] = @ + r.pot, !.result = "default",
                           !.stage = "ended"]
        ELSE IF res = 1
        THEN [r EXCEPT !.money[1] = @ + r.pot, !.result = "win", !.stage = "ended"]
        ELSE IF res = 0 - 1
        THEN [r EXCEPT !.money[2] = @ + r.pot, !.result = "win", !.stage = "ended"]
        ELSE [r EXCEPT !.money[1] = @ + SplitShare(r.pot),
                       !.money[2] = @ + SplitShare(r.pot),
                       !.result = "tie", !.stage = "ended"]

(* The end of betting_round when nobody folded, lines 684-688, and         *)
(* play_round going on: the next street with the dealer to act, the        *)
(* showdown after the river                                                *)
StreetEnd(r) ==
    LET cleared == [r EXCEPT !.current_bets = <<0, 0>>, !.current_bet = 0,
                             !.acted_once = <<FALSE, FALSE>>, !.last_raiser = 0 - 1,
                             !.raises = 0]
    IN  IF r.street < 3
        THEN [cleared EXCEPT !.street = @ + 1, !.idx = r.dealer_index]
        ELSE [cleared EXCEPT !.stage = "showdown"]

(* The body of the loop of betting_round after _act returned result for    *)
(* player i, lines 651-682                                                 *)
AfterAct(r, i, result) ==
    IF result = "quit" THEN StreetEnd(r)
    ELSE IF result = "fold" THEN ShowdownPay(r, 0)
    ELSE LET acted == IF result = "raise"
                      THEN [k \in 1..2 |-> k = i + 1]
                      ELSE [r.acted_once EXCEPT ![i + 1] = TRUE]
             last_raiser == IF result = "raise" THEN i ELSE r.last_raiser
             r1 == [r EXCEPT !.acted_once = acted, !.last_raiser = last_raiser,
                             !.raises = IF result = "raise" THEN @ + 1 ELSE @]
             ends == IF last_raiser = 0 - 1
                     THEN /\ acted[1]
                          /\ acted[2]
                          /\ r.current_bets[1] = r.current_bets[2]
                     ELSE i # last_raiser /\ result \in {"call", "check"}
         IN  IF ends THEN StreetEnd(r1) ELSE [r1 EXCEPT !.idx = (i + 1) % 2]

(* A PokerGame between two hands: pot and bets as the last hand left them *)
InitGame ==
    /\ DecisionIdle
    /\ bet = NoBet
    /\ mc = NoEstimate
    /\ pool = NoPool
    /\ evaluation = NoEvaluation
    /\ \E m \in StartMoney, d \in {0, 1}, p \in {0, Chips(2 * BIG_BLIND)} :
          round = [ started |-> TRUE, stage |-> "new", street |-> 0, money |-> m,
                    start |-> m, current_bets |-> <<0, 0>>, folded |-> <<FALSE, FALSE>>,
                    pot |-> p, current_bet |-> 0, dealer_index |-> d, idx |-> 0,
                    acted_once |-> <<FALSE, FALSE>>, last_raiser |-> 0 - 1,
                    raises |-> 0, result |-> "none" ]

gameOthers == <<decisionVars, bet, mc, pool, evaluation>>

(* play_round up to the first betting round: reset, post_blinds and the    *)
(* big blind made the first to act (line 806)                              *)
PostBlinds ==
    /\ round.stage = "new"
    /\ LET r0 == [round EXCEPT !.pot = 0, !.current_bet = 0, !.current_bets = <<0, 0>>,
                               !.folded = <<FALSE, FALSE>>, !.start = round.money]
           sbp == round.dealer_index % 2
           bbp == (round.dealer_index + 1) % 2
           r1 == PotBet(PotBet(r0, sbp, Chips(SMALL_BLIND)), bbp, Chips(BIG_BLIND))
       IN  round' = [r1 EXCEPT !.current_bet = Chips(BIG_BLIND), !.idx = bbp,
                               !.stage = "betting"]
    /\ UNCHANGED gameOthers

(* One turn of the loop of betting_round with the bot to act *)
BotAct ==
    /\ round.stage = "betting"
    /\ round.idx = 1
    /\ \E a \in BotActions(round) :
          /\ a = "raise" => round.raises < MaxRaises
          /\ LET out == ActBotArm(round, 1, a)
             IN  round' = AfterAct(out.r, 1, out.result)
    /\ UNCHANGED gameOthers

(* One turn of the loop of betting_round with the human to act *)
HumanAct ==
    /\ round.stage = "betting"
    /\ round.idx = 0
    /\ \E a \in HumanActions(round, 0), raise_amount \in RaiseAmounts :
          /\ a \in {"bet", "raise"} => round.raises < MaxRaises
          /\ LET out == ActHumanArm(round, 0, a, raise_amount)
             IN  round' = AfterAct(out.r, 0, out.result)
    /\ UNCHANGED gameOthers

(* showdown called by play_round after the river, line 836 *)
Showdown ==
    /\ round.stage = "showdown"
    /\ \E res \in {1, 0 - 1, 0} : round' = ShowdownPay(round, res)
    /\ UNCHANGED gameOthers

NextGame ==
    \/ PostBlinds
    \/ BotAct
    \/ HumanAct
    \/ Showdown

SpecGame == InitGame /\ [][NextGame]_vars

---------------------------------------------------------------------------
(* Properties *)

Decided == pc \in {"log", "log2", "done", "acted"}

FrameStates == { stack[i].state : i \in 1..Len(stack) }

(* The simulate_action calls bot.py's bot_decision and minimax make *)
InSearch == call.made /\ call.site \in {"decide", "max", "min"}

LegalAt(current_bet) ==
    IF current_bet = 0 THEN {"check", "raise"} ELSE {"fold", "call", "raise"}

(* C1: with current_bet == 0 the decision is check or raise, never fold,   *)
(* whatever the estimate, the depth and the position.                      *)
C1_NeverFoldsFacingNoBet ==
    (Decided /\ input.current_bet = 0) => action \in {"check", "raise"}

C1_Witness ==
    /\ pc = "done"
    /\ input.current_bet = 0
    /\ win_prob = 0
    /\ action = "check"

(* C2: the action decided is one of get_possible_actions of the input      *)
(* state, for every estimate and every bluff draw.                         *)
C2_DecisionIsPossibleAction ==
    Decided => action \in Range(IF module = "bot" THEN GetPossibleActions(input)
                                ELSE GetPossibleActions2(input, "bot"))

C2_Witness ==
    /\ pc = "done"
    /\ module = "bot"
    /\ input.current_bet > 0
    /\ Branch(input, win_prob) = "bluff"
    /\ action = "raise"

(* C3: get_possible_actions is exactly {check, raise} at current_bet == 0  *)
(* and exactly {fold, call, raise} otherwise, whatever the stacks, the     *)
(* committed amounts and the terminal flag of the state: for the input and *)
(* for every state a minimax frame holds, and for the list a frame loops   *)
(* over; bot2.py's function likewise, for either actor.                    *)
C3_PossibleActionsExact ==
    /\ \A s \in {input, state} \cup FrameStates :
          /\ Range(GetPossibleActions(s)) = LegalAt(s.current_bet)
          /\ Len(GetPossibleActions(s)) = Cardinality(LegalAt(s.current_bet))
          /\ \A actor \in Actors :
                /\ Range(GetPossibleActions2(s, actor)) = LegalAt(s.current_bet)
                /\ Len(GetPossibleActions2(s, actor)) = Cardinality(LegalAt(s.current_bet))
    /\ \A i \in 1..Len(stack) :
          stack[i].entered => Range(stack[i].actions) = LegalAt(stack[i].state.current_bet)

C3_Witness ==
    /\ stack # <<>>
    /\ Top.state.terminal
    /\ Top.state.bot_money < 0
    /\ Len(stack) > 1
    /\ stack[1].entered

(* C4: every simulate_action(s, a) call of bot_decision and of the minimax *)
(* recursion has a in get_possible_actions(s).                             *)
C4_SimulatedActionsPossible ==
    InSearch => call.action \in Range(GetPossibleActions(call.before))

C4_Witness ==
    /\ call.made
    /\ call.site = "max"
    /\ call.action = "fold"
    /\ Len(stack) = 3

(* C5: simulate_action (bot.py's and bot2.py's) leaves its argument as it  *)
(* was, for each of fold, check, call and raise; so                        *)
(* the state a minimax frame loops over, and the state bot_decision        *)
(* searches from, stay what they were when the call was entered.           *)
C5_ArgumentUnchanged ==
    /\ call.made => call.after = call.before
    /\ \A i \in 1..Len(stack) : stack[i].state = stack[i].state0
    /\ state = input

C5_Witness ==
    /\ call.made
    /\ call.site = "min"
    /\ call.action = "raise"
    /\ call.res # call.before
    /\ Len(stack) = 2
    /\ stack[1].idx = 3

(* C6: a call moves min(toCall, stack) from the actor's stack to its       *)
(* committed amount and to the pot, toCall = max(0, current_bet -          *)
(* committed); it never takes more than the stack holds.  (The actor is    *)
(* the bot in bot_decision and at a maximizing ply, and the actor argument *)
(* of bot2.py's function.)                                                 *)
C6_CallTakesAtMostStack ==
    (call.made /\ call.action = "call" /\ call.site \in {"decide", "max", "bot2"}) =>
        LET s == call.before
            IN  IF call.site = "bot2" /\ call.actor = "opp"
                THEN LET taken == Min(Max(0, s.current_bet - s.opp_current_bet),
                                      s.opp_money)
                     IN  call.res = [s EXCEPT !.opp_money = @ - taken,
                                              !.opp_current_bet = @ + taken,
                                              !.pot = @ + taken]
                ELSE LET taken == Min(Max(0, s.current_bet - s.bot_current_bet),
                                      s.bot_money)
                     IN  call.res = [s EXCEPT !.bot_money = @ - taken,
                                              !.bot_current_bet = @ + taken,
                                              !.pot = @ + taken]

(* bot2.py's simulate_action alone does what C6 says (the divergence is    *)
(* bot.py's)                                                               *)
Bot2CallTakesAtMostStack ==
    call.site = "bot2" => C6_CallTakesAtMostStack

(* C7: a raise sets current_bet' = current_bet + inc, inc the dynamic      *)
(* raise when present and non-zero and raise_amount otherwise, and moves   *)
(* diff = max(0, current_bet' - bot_current_bet) from bot_money to         *)
(* bot_current_bet and pot; no other field changes.                        *)
C7_RaiseEffect ==
    (InSearch /\ call.action = "raise") =>
        LET s == call.before
            inc == IF s.has_dynamic_raise /\ s.dynamic_raise # 0
                   THEN s.dynamic_raise ELSE s.raise_amount
            new_bet == s.current_bet + inc
            diff == Max(0, new_bet - s.bot_current_bet)
        IN  call.res = [s EXCEPT !.current_bet = new_bet,
                                 !.bot_money = @ - diff,
                                 !.bot_current_bet = @ + diff,
                                 !.pot = @ + diff]

C7_Witness ==
    /\ InSearch
    /\ call.action = "raise"
    /\ call.before.has_dynamic_raise
    /\ call.before.dynamic_raise = 3
    /\ call.res.current_bet = call.before.current_bet + 3
    /\ call.res.pot = call.before.pot + 3 + call.before.current_bet
                      - call.before.bot_current_bet

(* C8: from an input with bot_money, bot_current_bet and pot >= 0, every   *)
(* state simulate_action produces keeps the bot's stack and its committed  *)
(* amount non-negative.                                                    *)
C8_StackNeverNegative ==
    \A s \in {state} \cup FrameStates \cup (IF call.made THEN {call.res} ELSE {}) :
        s.bot_money >= 0 /\ s.bot_current_bet >= 0

(* C9: a fold yields a terminal copy whose winner is the side that did not *)
(* act: "opp" for a fold of the bot, "bot" for a fold explored at a        *)
(* minimizing ply.                                                         *)
C9_FoldLoserIsActor ==
    (InSearch /\ call.action = "fold") =>
        /\ call.res.terminal
        /\ call.res.winner = IF call.site = "min" THEN "bot" ELSE "opp"

(* C10: a call or raise explored at a minimizing ply leaves bot_money and  *)
(* bot_current_bet of the child equal to the parent's.                     *)
C10_OpponentPaysAtMinPly ==
    (call.made /\ call.site = "min" /\ call.action \in {"call", "raise"}) =>
        /\ call.res.bot_money = call.before.bot_money
        /\ call.res.bot_current_bet = call.before.bot_current_bet

(* C11: simulate_action fails with InvalidAction, and returns no state,    *)
(* whenever the action is not in get_possible_actions(state): check when   *)
(* current_bet > 0, fold or call when current_bet == 0, or a string that   *)
(* is none of the four actions.                                            *)
C11_IllegalActionRejected ==
    (call.made /\ call.site = "apply"
       /\ call.action \notin Range(GetPossibleActions(call.before))) =>
        call.exception = "InvalidAction"

(* C12: bot_decision terminates for every depth >= 0: the depth of every   *)
(* minimax call is a natural number, which the recursion counts down to    *)
(* the depth == 0 leaf, and the recursion never outgrows the interpreter.  *)
C12_SearchTerminates ==
    /\ pc # "RecursionError"
    /\ \A i \in 1..Len(stack) : stack[i].depth >= 0

(* C14 as stated: facing a bet, an estimate below the pot odds             *)
(* toCall / (pot + toCall) (any safety margin only widens the range) is    *)
(* answered by fold when the call is not cheap for the stack (here: it     *)
(* costs the whole stack or more).                                         *)
C14_FoldsBelowPotOdds ==
    (Decided /\ module = "bot" /\ input.current_bet > 0) =>
        LET to_call == Max(0, input.current_bet - input.bot_current_bet)
        IN  (/\ to_call > 0
             /\ win_prob * (input.pot + to_call) < 100 * to_call
             /\ to_call >= input.bot_money) => action = "fold"

(* C14, amended: facing a bet, bot_decision returns fold exactly when the  *)
(* estimate is below the fixed position-adjusted threshold, 0.30 for the   *)
(* small blind and 0.22 otherwise; pot, toCall and the stack play no part. *)
C14_FoldsBelowFixedThreshold ==
    (Decided /\ module = "bot" /\ input.current_bet > 0) =>
        (action = "fold" <=> win_prob < (IF input.bot_is_small_blind THEN 30 ELSE 22))

C14_Witness ==
    /\ pc = "done"
    /\ module = "bot"
    /\ input.current_bet - input.bot_current_bet = 2
    /\ input.pot > 30
    /\ input.bot_money = 10
    /\ win_prob = 21
    /\ action = "fold"

(* C15: in the search arm (facing a bet, estimate at or above the raise    *)
(* threshold) raise is returned only if the minimax value of the raise     *)
(* state exceeds that of the call state (by more than an epsilon >= 0).    *)
C15_RaiseOnlyIfBetter ==
    (Decided /\ module = "bot" /\ Branch(input, win_prob) = "search"
       /\ action = "raise") => raise_value > call_value

(* C16: after a raise decision the game holds the current_bet, the pot and *)
(* the bot stack of simulate_action(state, "raise"), which raises by       *)
(* state.dynamic_raise.                                                    *)
C16_GameRaiseIsSimulatedRaise ==
    (pc = "acted" /\ action = "raise") =>
        LET sim == SimulateAction(input, "raise", "bot").res
        IN  /\ game.current_bet = sim.current_bet
            /\ game.pot = sim.pot
            /\ game.bot_money = sim.bot_money

(* The plain recursion: the leaf value at a terminal state or depth 0, else *)
(* the maximum (maximizing ply) or minimum of the values of all the        *)
(* children, none left out                                                 *)
RECURSIVE PlainMinimax(_, _, _, _)
PlainMinimax(s, d, maximizing, seed) ==
    IF s.terminal \/ d = 0 THEN LeafValue(s, seed)
    ELSE LET acts == GetPossibleActions(s)
             vals == { PlainMinimax(SimulateAction(s, acts[i], "bot").res, d - 1,
                                    ~ maximizing, seed) : i \in 1..Len(acts) }
         IN  IF maximizing THEN CHOOSE v \in vals : \A u \in vals : u <= v
             ELSE CHOOSE v \in vals : \A u \in vals : v <= u

(* C13: with a fixed leaf value function (values strictly inside -1e9 and  *)
(* 1e9) minimax(state, depth, -1e9, 1e9, maximizing) with its cut-off      *)
(* returns the value of the plain max/min recursion, for every state,      *)
(* depth >= 0 and either ply.                                              *)
C13_AlphaBetaIsPlainMinimax ==
    (leaf.fixed /\ stack = <<>> /\ ret.has) =>
        /\ ret.val = PlainMinimax(input, depth, leaf.maximizing, leaf.seed)
        /\ 0 - Infinity < ret.val /\ ret.val < Infinity

C13_Witness ==
    /\ leaf.fixed
    /\ stack = <<>>
    /\ ret.has
    /\ leaf.cut
    /\ depth = MaxDepth
    /\ leaf.maximizing

(* C17: for every win_prob, pot >= 0, bot_money >= 0 (stacks under 2 and  *)
(* half-chip stacks included) and every draw, calculate_bet_size returns   *)
(* an amount a with 2 <= a <= bot_money.                                   *)
C17_BetWithinMinAndStack ==
    bet.called => (2 <= bet.amount /\ 2 * bet.amount <= bet.bot_money)

(* The cap alone: the amount is never more than the stack (which a        *)
(* half-chip stack at or under the sized bet breaks, round(3.5) being 4)   *)
BetAtMostStack ==
    bet.called => 2 * bet.amount <= bet.bot_money

Unknown == Range(mc.full_deck) \ Range(mc.bot_hand \o mc.community)

(* C18: for every 2-card hand, community of 0, 3, 4 or 5 cards and         *)
(* n_sim >= 1, below the threshold of 100 or not, monte_carlo_win_prob and *)
(* monte_carlo_parallel return a value in [0, 1], equal to                 *)
(* (wins + 0.5 * ties) / n_sim.                                            *)
C18_EstimateIsWinShare ==
    (mc.called /\ mc.returned /\ mc.full_deck = FULL_DECK) =>
        /\ 0 <= mc.num /\ mc.num <= mc.den
        /\ mc.num * (2 * mc.n_sim) = (2 * mc.won + mc.tied) * mc.den

(* C19: in every simulation of every batch (the deck holding the cards to  *)
(* deal, as the full deck always does) the opponent's 2 cards and the      *)
(* cards added to the community are pairwise distinct, apart from the      *)
(* bot's hole cards and the known community, and the community is brought  *)
(* to exactly 5 cards, the known ones first; at every iteration, the list  *)
(* being reshuffled in place in between.                                   *)
C19_DealtCardsDistinct ==
    (mc.called /\ mc.dealt /\ Cardinality(Unknown) >= 2 + (5 - Len(mc.community))) =>
        LET k == Len(mc.community)
            drawn == mc.opp_hand \o SubSeq(mc.sim_comm, k + 1, Len(mc.sim_comm))
        IN  /\ Len(mc.opp_hand) = 2
            /\ Len(mc.sim_comm) = 5
            /\ SubSeq(mc.sim_comm, 1, k) = mc.community
            /\ \A i, j \in 1..Len(drawn) : i # j => drawn[i] # drawn[j]
            /\ Range(drawn) \cap Range(mc.bot_hand \o mc.community) = {}
            /\ Range(drawn) \subseteq Range(mc.full_deck)

C19_Witness ==
    /\ mc.called
    /\ mc.dealt
    /\ mc.full_deck = FULL_DECK
    /\ mc.i = 2
    /\ Len(mc.community) = 3
    /\ mc.opp_hand[1] > mc.opp_hand[2]
    /\ mc.sim_comm[4] > mc.sim_comm[5]

(* C20: with fewer than 2 cards unknown the estimator fails with           *)
(* InsufficientCards: it deals no opponent hand and returns no number.     *)
C20_InsufficientCardsRaised ==
    (mc.called /\ Cardinality(Unknown) < 2) =>
        /\ ~ mc.dealt
        /\ ~ mc.returned
        /\ mc.pc = "done" => mc.exception = "InsufficientCards"

(* C29: bot_decision returns fold only where calling costs chips: never    *)
(* when max(0, current_bet - bot_current_bet) == 0, as for the big blind   *)
(* that faces only its own posted bet.                                     *)
C29_FoldOnlyWhenOwing ==
    (module = "bot" /\ Decided /\ action = "fold") =>
        Max(0, input.current_bet - input.bot_current_bet) > 0

(* C28: between bot_decision calls, a call that ended in an exception      *)
(* included, the log's counters agree: decisions is the sum of folds,      *)
(* calls, raises and checks, and win_probs and decision_times have one     *)
(* entry per decision; a completed call has added 1 to decisions and to    *)
(* the counter of the action it returns.                                   *)
C28_LogCountsAgree ==
    (module = "bot" /\ pc \in {"start", "done", "RecursionError"}) =>
        /\ log.decisions = log.folds + log.calls + log.raises + log.checks
        /\ log.win_probs = log.decisions
        /\ log.decision_times = log.decisions
        /\ pc = "done" =>
              /\ log.decisions = 1
              /\ action = "fold" => log.folds = 1
              /\ action = "call" => log.calls = 1
              /\ action = "raise" => log.raises = 1
              /\ action = "check" => log.checks = 1

RECURSIVE SumSeq(_)
SumSeq(seq) == IF seq = <<>> THEN 0 ELSE Head(seq) + SumSeq(Tail(seq))

(* C27: for n_sim >= 100 and max_workers >= 1 monte_carlo_parallel submits *)
(* exactly max_workers batches, of sizes that are not negative, differ by  *)
(* at most 1 and sum to n_sim; the simulations run by the time it returns  *)
(* are n_sim of them, the divisor of the value returned.                   *)
C27_BatchesPartitionSims ==
    (mc.called /\ mc.mode = "batch") =>
        /\ mc.n_sim >= ParallelMinSims
        /\ Len(mc.batches) = mc.max_workers
        /\ \A i \in 1..Len(mc.batches) : mc.batches[i] >= 0
        /\ \A i, j \in 1..Len(mc.batches) : mc.batches[i] - mc.batches[j] <= 1
        /\ SumSeq(mc.batches) = mc.n_sim
        /\ mc.run <= mc.n_sim
        /\ mc.returned => (mc.run = mc.n_sim /\ mc.den = 2 * mc.n_sim)

(* a call with more workers than simulations has returned: some batches    *)
(* were empty, others held one simulation                                  *)
C27_Witness ==
    /\ mc.called
    /\ mc.mode = "batch"
    /\ mc.returned
    /\ mc.max_workers > mc.n_sim
    /\ \E i, j \in 1..Len(mc.batches) : mc.batches[i] = 0 /\ mc.batches[j] = 1
    /\ mc.run = mc.n_sim

Running(k) == pool.futures[k].state = "running"

(* C22: the caller adds no batch's win count to the total before every     *)
(* batch has finished, in every order the workers finish in.               *)
C22_SumAfterAllFinished ==
    pool.called =>
        \A k \in 1..Len(pool.futures) :
            pool.futures[k].yielded =>
                /\ Len(pool.futures) = pool.max_workers
                /\ \A j \in 1..Len(pool.futures) : pool.futures[j].state = "finished"

(* C23: no two batches that are running at the same time draw their        *)
(* shuffles from the same generator.                                       *)
C23_OwnGenerator ==
    pool.called =>
        \A j, k \in 1..Len(pool.futures) :
            (j # k /\ Running(j) /\ Running(k)
               /\ pool.futures[j].generator # "none" /\ pool.futures[k].generator # "none") =>
                pool.futures[j].generator # pool.futures[k].generator

(* The values of a list of cards *)
ValueSet(cards) == { RankToValue(cards[i]) : i \in 1..Len(cards) }

(* The standard category of 5 distinct cards, from the definitions of the  *)
(* hands: how many values there are, how often the commonest comes, one    *)
(* suit or not, five values in a row (the ace high, or low in A-2-3-4-5)   *)
StandardCategory(cards) ==
    LET V == ValueSet(cards)
        Times(v) == Cardinality({ i \in 1..Len(cards) : RankToValue(cards[i]) = v })
        most == CHOOSE n \in 1..4 : (\E v \in V : Times(v) = n) /\ (\A v \in V : Times(v) <= n)
        one_suit == \A i, j \in 1..Len(cards) : cards[i][2] = cards[j][2]
        in_a_row == /\ Cardinality(V) = 5
                    /\ \/ \E low \in 2..10 : V = low..(low + 4)
                       \/ V = {14, 2, 3, 4, 5}
    IN  IF in_a_row /\ one_suit THEN 8
        ELSE IF most = 4 THEN 7
        ELSE IF most = 3 /\ Cardinality(V) = 2 THEN 6
        ELSE IF one_suit THEN 5
        ELSE IF in_a_row THEN 4
        ELSE IF most = 3 THEN 3
        ELSE IF most = 2 /\ Cardinality(V) = 3 THEN 2
        ELSE IF most = 2 THEN 1
        ELSE 0

(* C24: for 5 distinct cards the first element of evaluate_5's tuple is    *)
(* the standard category 0..8 of the hand; A-2-3-4-5 is a straight or      *)
(* straight flush with top card 5, A-K-Q-J-T one with top card 14, and a   *)
(* set of values that wraps around the ace (K-A-2-3-4, Q-K-A-2-3,          *)
(* J-Q-K-A-2) is no straight.                                              *)
C24_CategoryIsStandard ==
    (evaluation.called /\ evaluation.fn = "evaluate_5" /\ evaluation.returned) =>
        LET V == ValueSet(evaluation.cards)
            rank == evaluation.rank
        IN  /\ rank[1] \in 0..8
            /\ rank[1] = StandardCategory(evaluation.cards)
            /\ V = {14, 5, 4, 3, 2} => (rank[1] \in {4, 8} /\ rank[2] = 5)
            /\ V = {14, 13, 12, 11, 10} => (rank[1] \in {4, 8} /\ rank[2] = 14)
            /\ V \in {{13, 14, 2, 3, 4}, {12, 13, 14, 2, 3}, {11, 12, 13, 14, 2}} =>
                  rank[1] \notin {4, 8}

(* the wheel in mixed suits has been evaluated: a straight to the 5 *)
C24_Witness ==
    /\ evaluation.called
    /\ evaluation.fn = "evaluate_5"
    /\ evaluation.returned
    /\ ValueSet(evaluation.cards) = {14, 5, 4, 3, 2}
    /\ ~ IsFlush(evaluation.cards)
    /\ evaluation.rank = <<4, 5>>

(* C25: best_hand_rank called with fewer than 5 cards fails with           *)
(* InvalidInput and returns no rank.                                       *)
C25_TooFewCardsRejected ==
    (evaluation.called /\ evaluation.fn \in {"best_hand_rank", "evaluate_hand"}
       /\ Len(evaluation.hand \o evaluation.community_cards \o evaluation.cards) < 5
       /\ (evaluation.returned \/ evaluation.exception # "none")) =>
        /\ ~ evaluation.returned
        /\ evaluation.exception = "InvalidInput"

(* C21: when the unknown cards are too few for the estimator to deal from, *)
(* bot_decision ends without an error and returns call where call is       *)
(* possible, check where it is not.                                        *)
C21_FallsBackToCallOrCheck ==
    (module = "bot" /\ mc.called
       /\ Cardinality(Unknown) < 2 + (5 - Len(mc.community))
       /\ pc \notin {"start", "estimate", "decide", "log"}) =>
        /\ pc = "done"
        /\ action = IF "call" \in Range(GetPossibleActions(input)) THEN "call" ELSE "check"

(* bot_decision is at or past its decision on 2c 7d, board Ks Kh Kd Qs Qh, *)
(* current_bet 40, pot 50, stack 60                                        *)
ScenarioDecided ==
    /\ module = "bot"
    /\ Decided
    /\ mc.called
    /\ mc.bot_hand = <<<<2, 4>>, <<7, 3>>>>
    /\ mc.community = <<<<13, 1>>, <<13, 2>>, <<13, 3>>, <<12, 1>>, <<12, 2>>>>
    /\ input.current_bet = 40
    /\ input.pot = 50
    /\ input.bot_money = 60

(* C26 as stated: holding 2c 7d on the board Ks Kh Kd Qs Qh, with          *)
(* current_bet 40, pot 50 and a stack of 60, the decision at the exact     *)
(* win probability is fold.                                                *)
C26_ScenarioFolds ==
    ScenarioDecided => action = "fold"

(* C26 amended: in that scenario the bot's best hand is the board, which   *)
(* 939 of the opponent's 990 hands also play and 51 beat; the win          *)
(* probability is 939 / 1980 (47 percent) and the decision is call, in     *)
(* either position and at every depth.                                     *)
C26_ScenarioCalls ==
    ScenarioDecided =>
        /\ mc.hands = 990
        /\ mc.won = 0
        /\ mc.tied = 939
        /\ win_prob = 47
        /\ action = "call"

C26_Witness ==
    /\ ScenarioDecided
    /\ pc = "done"
    /\ action = "call"
    /\ log.calls = 1

(* the money of the two players *)
PlayersMoney(m) == m[1] + m[2]

(* C30: in a hand of PokerGame, after post_blinds and after every action   *)
(* of either player in any betting round, the two players' money plus the  *)
(* pot equals the two players' money at the start of the hand; after       *)
(* showdown (a win by fold, a win at showdown or a split) the two players' *)
(* money alone equals it.                                                  *)
C30_ChipsConserved ==
    round.started =>
        /\ round.stage \in {"betting", "showdown"} =>
              PlayersMoney(round.money) + round.pot = PlayersMoney(round.start)
        /\ round.stage = "ended" => PlayersMoney(round.money) = PlayersMoney(round.start)

(* a pot holding a cut-down bet of a half chip is split *)
C30_Witness ==
    /\ round.started
    /\ round.stage = "ended"
    /\ round.result = "tie"
    /\ round.pot % (2 * Unit) # 0
    /\ round.pot % 2 = 0
    /\ round.street = 3

===========================================================================
